---- MODULE Spec2Model ----
(***************************************************************************)
(* Model of the capture pipeline of picamera.js:                           *)
(*   - JpegEncoder  (src/src/encoders/jpeg_encoder.cpp): bounded queue,    *)
(*     one worker thread, producers blocked on a shared condition variable *)
(*   - ControlManager (src/src/core/control_manager.cpp): merge / apply    *)
(*   - CameraManager::Impl (src/src/core/camera_manager.cpp): setControls, *)
(*     the requestComplete handler, start / stop                           *)
(*   - StreamManager (src/src/core/stream_manager.cpp): configure,         *)
(*     allocateBuffers / mapBuffer / freeBuffers                           *)
(* Spec    : the threads of JpegEncoder (encode callers, worker, stop).    *)
(* FairSpec: Spec with fairness on the steps of every thread that is      *)
(*           inside a call; nobody is obliged to call encode() or stop().  *)
(* SpecCtl : ControlManager and the orchestrator's control path.           *)
(* SpecCopy: the encoder with its one caller and a source buffer that is   *)
(*           overwritten at any moment.                                    *)
(* FairSpecOne: the encoder with its one caller, fair.                     *)
(* SpecCam : the lifecycle (start, stop, destruction) and the frame path   *)
(*           over the stream configurations.                               *)
(* SpecSm  : the StreamManager called directly: configure,                *)
(*           allocateBuffers, freeBuffers, with the real counts of 6.      *)
(* SpecPipe: the orchestrator with its encoder: start, completions whose   *)
(*           handler calls encode(), setControls from the application's    *)
(*           thread, and stop() step by step.                              *)
(***************************************************************************)
EXTENDS Integers, Sequences, FiniteSets, TLC

\* ------------------------------------------------------------------ bounds
NumProducers == 2
MaxTasks == 3
MaxQueueSize == 2
NumRequests == 2
MaxSetControls == 2
MaxCompletions == 2

\* ------------------------------------------------------------------ JpegEncoder state
VARIABLES
    maxQueueSize_,  \* const size_t maxQueueSize_
    running_,       \* std::atomic<bool> running_
    queue_,         \* std::queue<Task> queue_ (a task is its push number)
    mutexHolder,    \* owner of mutex_, or NoThread
    cvWaiters,      \* threads blocked inside cv_.wait
    pc,             \* position of every thread
    task,           \* the worker's local Task (0: none)
    delivered,      \* tasks handed to task.callback, in call order
    pushCount,      \* number of queue_.push calls so far
    queuedAtStop,   \* tasks in queue_ when stop() cleared running_
    fullAtPop,      \* queue_ was at capacity right before the last pop
    blockedAtPop,   \* producers blocked in cv_.wait at the last pop
    pushedSincePop, \* producers that pushed since the last pop
    dropped,        \* an encode() call returned without a push while running_
    srcData,        \* the bytes behind yuvData, the caller's source buffer
    dataCopy,       \* per encode() call: the bytes of its local dataCopy
    atCall,         \* per encode() call: the bytes yuvData held when it was called
    taskData,       \* per task: the bytes task.data points to
    taskAtCall,     \* per task: the bytes yuvData held when its encode() was called
    failedTasks     \* tasks for which tjCompressFromYUVPlanes returned non-zero

encVars == <<maxQueueSize_, running_, queue_, mutexHolder, cvWaiters, pc, task,
             delivered, pushCount, queuedAtStop, fullAtPop, blockedAtPop,
             pushedSincePop, dropped, srcData, dataCopy, atCall, taskData,
             taskAtCall, failedTasks>>

\* the task payloads and the outcome of the encodings
dataVars == <<srcData, dataCopy, atCall, taskData, taskAtCall, failedTasks>>

\* ------------------------------------------------------------------ CameraManager::Impl and ControlManager state
VARIABLES
    camState,             \* "new", "initFailed", "initialized", "running" (running_ = true),
                          \* "failed" (start returned false), "stopping", "stopped", "destroyed"
    initialControls_,     \* Controls initialControls_
    pendingControls_,     \* std::optional<Controls> pendingControls_ of CameraManager::Impl
    jpegQuality_,         \* std::atomic<int> jpegQuality_
    cm_pendingControls_,  \* ControlManager::pendingControls_
    cm_currentControls_,  \* ControlManager::currentControls_
    reqControls,          \* request->controls() of every request
    reqState,             \* "none", "created", "queued", "handling", "processed",
                          \* "cancelled", "abandoned"
    deviceQueue,          \* the requests queued to the camera, oldest first
    encoderStarted,       \* jpegEncoder_->start() was called
    connected,            \* requestCompleted is connected to requestComplete
    errorCalls,           \* number of errorCallback_ invocations
    crashed,              \* the process was killed by a trap
    setCalls,             \* number of setControls calls so far
    completions,          \* number of non-cancelled completions handled so far
    rgbDelivered,         \* number of frameCallback_(RGB) invocations
    lastEncodeQuality,    \* quality argument of the last jpegEncoder_->encode call
    lastApply,            \* arguments and effects of the last applyControls call
    stashId,              \* which setControls call filled pendingControls_ (0: none)
    stashApplied,         \* per setControls call: number of requests it was applied to
    lastSetQuality,       \* jpegQuality of the last setControls call
    completedSinceSet     \* a completion passed the control step since the last setControls

\* ------------------------------------------------------------------ StreamManager state and the frames handed out
VARIABLES
    config_,          \* the configured streams, in order: [type, width, height] (stream = index)
    jpegWidth_,       \* uint32_t jpegWidth_
    jpegHeight_,      \* uint32_t jpegHeight_
    allocated,        \* streams whose buffers allocator_ holds
    streamBuffers_,   \* keys of streamBuffers_ (every entry lists all buffers of its stream)
    mappedBuffers_,   \* mappedBuffers_: records [stream, index, size]
    requests_,        \* requests_: per request created, the buffers attached: [stream, index]
    frames,           \* frameCallback_ invocations made by requestComplete, in order
    encodeCalls,      \* jpegEncoder_->encode invocations made by requestComplete, in order
    reqMeta,          \* per request: sequence() and SensorTimestamp of its last completion
    lastOp,           \* the last call made on CameraManager ("none" before any)
    stopCalls         \* number of stop() calls so far

smVars == <<config_, jpegWidth_, jpegHeight_, allocated, streamBuffers_,
            mappedBuffers_, requests_, frames, encodeCalls, reqMeta, lastOp,
            stopCalls>>

\* ------------------------------------------------------------------ StreamManager on its own, and the handler's writes
VARIABLES
    streamTypes_,     \* streamTypes_: the type of every stream, filled when configure() succeeds
    smCalls,          \* number of calls made on the StreamManager directly
    lastReturn,       \* return value of the last such call ("none" before any)
    cfgInput,         \* the arguments of the last configure(): [rawStream, streams]
    handlerWrites     \* the controls the running completion handler wrote onto its request

regVars == <<streamTypes_, smCalls, lastReturn, cfgInput>>

\* ------------------------------------------------------------------ the callers of setControls
VARIABLES
    controlMutex_,    \* owner of std::mutex controlMutex_, or NoThread
    setMerged         \* per field: the value of the last setControls call that supplied it

callVars == <<controlMutex_, setMerged>>

ctlVars == <<camState, initialControls_, pendingControls_, jpegQuality_,
             cm_pendingControls_, cm_currentControls_, reqControls, reqState,
             deviceQueue, encoderStarted, connected, errorCalls, crashed, setCalls, completions,
             rgbDelivered, lastEncodeQuality, lastApply, stashId, stashApplied,
             lastSetQuality, completedSinceSet, config_, jpegWidth_, jpegHeight_,
             allocated, streamBuffers_, mappedBuffers_, requests_, frames,
             encodeCalls, reqMeta, lastOp, stopCalls, streamTypes_, smCalls,
             lastReturn, cfgInput, handlerWrites, controlMutex_, setMerged>>

vars == <<encVars, ctlVars>>

Producers == 1..NumProducers
Worker == 0
Controller == 0 - 1
Threads == Producers \cup {Worker, Controller}
NoThread == 0 - 2
NoTask == 0

\* the one thread that calls encode() in the pipeline: libcamera's thread,
\* inside requestComplete
CameraThread == 1

InCall == {p \in Producers : pc[p] # "idle"}

\* bookkeeping at a return of encode() that has made n pushes
DroppedAfter(n) == dropped \/ (running_ /\ n # 1)

\* ------------------------------------------------------------------ condition variable
\* cv_.wait(lock, pred): while (!pred()) wait(lock);
\* wait(lock) releases the mutex and blocks in one atomic step.
CvBlock(t) ==
    /\ mutexHolder = t
    /\ mutexHolder' = NoThread
    /\ cvWaiters' = cvWaiters \cup {t}
    /\ pc' = [pc EXCEPT ![t] = "blocked"]

\* a woken thread reacquires the mutex before wait(lock) returns
CvRelock(t) ==
    /\ pc[t] = "woken"
    /\ mutexHolder = NoThread
    /\ mutexHolder' = t
    /\ pc' = [pc EXCEPT ![t] = "pred"]
    /\ UNCHANGED ctlVars
    /\ UNCHANGED dataVars
    /\ UNCHANGED <<maxQueueSize_, running_, queue_, cvWaiters, task, delivered,
                   pushCount, queuedAtStop, fullAtPop, blockedAtPop,
                   pushedSincePop, dropped>>

\* the standard allows wait(lock) to return without a notification
SpuriousWakeup(t) ==
    /\ t \in cvWaiters
    /\ cvWaiters' = cvWaiters \ {t}
    /\ pc' = [pc EXCEPT ![t] = "woken"]
    /\ UNCHANGED ctlVars
    /\ UNCHANGED dataVars
    /\ UNCHANGED <<maxQueueSize_, running_, queue_, mutexHolder, task, delivered,
                   pushCount, queuedAtStop, fullAtPop, blockedAtPop,
                   pushedSincePop, dropped>>

\* pc after notify_all by thread t, which moves to label next
NotifyAllPc(t, next) ==
    [x \in Threads |-> IF x = t THEN next
                       ELSE IF x \in cvWaiters THEN "woken" ELSE pc[x]]

\* ------------------------------------------------------------------ JpegEncoder::start
Start ==
    /\ pc[Controller] = "new"
    /\ running_' = TRUE
    /\ pc' = [pc EXCEPT ![Controller] = "run", ![Worker] = "loop"]
    /\ UNCHANGED ctlVars
    /\ UNCHANGED dataVars
    /\ UNCHANGED <<maxQueueSize_, queue_, mutexHolder, cvWaiters, task, delivered,
                   pushCount, queuedAtStop, fullAtPop, blockedAtPop,
                   pushedSincePop, dropped>>

\* ------------------------------------------------------------------ JpegEncoder::stop
\* if (running_) { running_ = false;
StopFlag ==
    /\ pc[Controller] = "run"
    /\ running_
    /\ running_' = FALSE
    /\ queuedAtStop' = {queue_[i] : i \in 1..Len(queue_)}
    /\ pc' = [pc EXCEPT ![Controller] = "notify"]
    /\ UNCHANGED ctlVars
    /\ UNCHANGED dataVars
    /\ UNCHANGED <<maxQueueSize_, queue_, mutexHolder, cvWaiters, task, delivered,
                   pushCount, fullAtPop, blockedAtPop, pushedSincePop, dropped>>

\* cv_.notify_all();
StopNotify ==
    /\ pc[Controller] = "notify"
    /\ pc' = NotifyAllPc(Controller, "join")
    /\ cvWaiters' = {}
    /\ UNCHANGED ctlVars
    /\ UNCHANGED dataVars
    /\ UNCHANGED <<maxQueueSize_, running_, queue_, mutexHolder, task, delivered,
                   pushCount, queuedAtStop, fullAtPop, blockedAtPop,
                   pushedSincePop, dropped>>

\* if (worker_.joinable()) worker_.join(); }
StopJoin ==
    /\ pc[Controller] = "join"
    /\ pc[Worker] = "done"
    /\ pc' = [pc EXCEPT ![Controller] = "stopped"]
    /\ UNCHANGED ctlVars
    /\ UNCHANGED dataVars
    /\ UNCHANGED <<maxQueueSize_, running_, queue_, mutexHolder, cvWaiters, task,
                   delivered, pushCount, queuedAtStop, fullAtPop, blockedAtPop,
                   pushedSincePop, dropped>>

\* faulty variant: the capacity test is off by one
EncodePredOffByOne == Len(queue_) <= maxQueueSize_ \/ ~running_

\* ------------------------------------------------------------------ JpegEncoder::encode
\* the wait predicate of encode()
EncodePred == Len(queue_) < maxQueueSize_ \/ ~running_

\* dataCopy = std::make_shared<std::vector<uint8_t>>(yuvData, yuvData + dataSize)
CopySource == srcData

\* faulty variant: the task keeps the caller's pointer, without a copy
TaskDataNoCopy(p) == srcData

\* Task.data = dataCopy->data(), with dataCopy kept alive by the task
TaskData(p) == dataCopy[p]

\* copy the data, then std::unique_lock<std::mutex> lock(mutex_)
EncodeLock(p) ==
    /\ pc[p] = "idle"
    /\ pushCount + Cardinality(InCall) < MaxTasks
    /\ mutexHolder = NoThread
    /\ mutexHolder' = p
    /\ pc' = [pc EXCEPT ![p] = "pred"]
    /\ dataCopy' = [dataCopy EXCEPT ![p] = CopySource]
    /\ atCall' = [atCall EXCEPT ![p] = srcData]
    /\ UNCHANGED ctlVars
    /\ UNCHANGED <<srcData, taskData, taskAtCall, failedTasks>>
    /\ UNCHANGED <<maxQueueSize_, running_, queue_, cvWaiters, task, delivered,
                   pushCount, queuedAtStop, fullAtPop, blockedAtPop,
                   pushedSincePop, dropped>>

\* one evaluation of the predicate inside cv_.wait
EncodeTestPred(p) ==
    /\ pc[p] = "pred"
    /\ pc' = [pc EXCEPT ![p] = IF EncodePred THEN "chk" ELSE "wait"]
    /\ UNCHANGED ctlVars
    /\ UNCHANGED dataVars
    /\ UNCHANGED <<maxQueueSize_, running_, queue_, mutexHolder, cvWaiters, task,
                   delivered, pushCount, queuedAtStop, fullAtPop, blockedAtPop,
                   pushedSincePop, dropped>>

EncodeBlock(p) ==
    /\ pc[p] = "wait"
    /\ CvBlock(p)
    /\ UNCHANGED ctlVars
    /\ UNCHANGED dataVars
    /\ UNCHANGED <<maxQueueSize_, running_, queue_, task, delivered, pushCount,
                   queuedAtStop, fullAtPop, blockedAtPop, pushedSincePop, dropped>>

\* if (!running_) return;
EncodeReturnStopped(p) ==
    /\ pc[p] = "chk"
    /\ ~running_
    /\ mutexHolder' = NoThread
    /\ pc' = [pc EXCEPT ![p] = "idle"]
    /\ dropped' = DroppedAfter(0)
    /\ dataCopy' = [dataCopy EXCEPT ![p] = 0]
    /\ atCall' = [atCall EXCEPT ![p] = 0]
    /\ UNCHANGED ctlVars
    /\ UNCHANGED <<srcData, taskData, taskAtCall, failedTasks>>
    /\ UNCHANGED <<maxQueueSize_, running_, queue_, cvWaiters, task, delivered,
                   pushCount, queuedAtStop, fullAtPop, blockedAtPop,
                   pushedSincePop>>

\* queue_.push({...}); the lock is released at the end of the block
EncodePush(p) ==
    /\ pc[p] = "chk"
    /\ running_
    /\ queue_' = Append(queue_, pushCount + 1)
    /\ pushCount' = pushCount + 1
    /\ pushedSincePop' = pushedSincePop \cup {p}
    /\ mutexHolder' = NoThread
    /\ pc' = [pc EXCEPT ![p] = "notify"]
    /\ taskData' = [taskData EXCEPT ![pushCount + 1] = TaskData(p)]
    /\ taskAtCall' = [taskAtCall EXCEPT ![pushCount + 1] = atCall[p]]
    /\ UNCHANGED ctlVars
    /\ UNCHANGED <<srcData, dataCopy, atCall, failedTasks>>
    /\ UNCHANGED <<maxQueueSize_, running_, cvWaiters, task, delivered,
                   queuedAtStop, fullAtPop, blockedAtPop, dropped>>

\* cv_.notify_one(): wakes one thread blocked on cv_, whichever it is
EncodeNotifyOne(p) ==
    /\ pc[p] = "notify"
    /\ \/ /\ cvWaiters = {}
          /\ pc' = [pc EXCEPT ![p] = "idle"]
          /\ UNCHANGED cvWaiters
       \/ \E t \in cvWaiters :
            /\ cvWaiters' = cvWaiters \ {t}
            /\ pc' = [pc EXCEPT ![p] = "idle", ![t] = "woken"]
    /\ dropped' = DroppedAfter(1)
    /\ dataCopy' = [dataCopy EXCEPT ![p] = 0]
    /\ atCall' = [atCall EXCEPT ![p] = 0]
    /\ UNCHANGED ctlVars
    /\ UNCHANGED <<srcData, taskData, taskAtCall, failedTasks>>
    /\ UNCHANGED <<maxQueueSize_, running_, queue_, mutexHolder, task, delivered,
                   pushCount, queuedAtStop, fullAtPop, blockedAtPop,
                   pushedSincePop>>

\* ------------------------------------------------------------------ JpegEncoder::workerThread
\* the wait predicate of workerThread()
WorkerPred == Len(queue_) > 0 \/ ~running_

\* faulty variant: the worker takes the newest task
QueueBack == queue_[Len(queue_)]

\* task = queue_.front()
QueueFront == Head(queue_)

\* queue_.pop()
QueuePop == Tail(queue_)

\* while (running_) {
WorkerLoop ==
    /\ pc[Worker] = "loop"
    /\ pc' = [pc EXCEPT ![Worker] = IF running_ THEN "lock" ELSE "done"]
    /\ UNCHANGED ctlVars
    /\ UNCHANGED dataVars
    /\ UNCHANGED <<maxQueueSize_, running_, queue_, mutexHolder, cvWaiters, task,
                   delivered, pushCount, queuedAtStop, fullAtPop, blockedAtPop,
                   pushedSincePop, dropped>>

\* std::unique_lock<std::mutex> lock(mutex_);
WorkerLock ==
    /\ pc[Worker] = "lock"
    /\ mutexHolder = NoThread
    /\ mutexHolder' = Worker
    /\ pc' = [pc EXCEPT ![Worker] = "pred"]
    /\ UNCHANGED ctlVars
    /\ UNCHANGED dataVars
    /\ UNCHANGED <<maxQueueSize_, running_, queue_, cvWaiters, task, delivered,
                   pushCount, queuedAtStop, fullAtPop, blockedAtPop,
                   pushedSincePop, dropped>>

WorkerTestPred ==
    /\ pc[Worker] = "pred"
    /\ pc' = [pc EXCEPT ![Worker] = IF WorkerPred THEN "chk" ELSE "wait"]
    /\ UNCHANGED ctlVars
    /\ UNCHANGED dataVars
    /\ UNCHANGED <<maxQueueSize_, running_, queue_, mutexHolder, cvWaiters, task,
                   delivered, pushCount, queuedAtStop, fullAtPop, blockedAtPop,
                   pushedSincePop, dropped>>

WorkerBlock ==
    /\ pc[Worker] = "wait"
    /\ CvBlock(Worker)
    /\ UNCHANGED ctlVars
    /\ UNCHANGED dataVars
    /\ UNCHANGED <<maxQueueSize_, running_, queue_, task, delivered, pushCount,
                   queuedAtStop, fullAtPop, blockedAtPop, pushedSincePop, dropped>>

\* if (!running_) break;
WorkerBreak ==
    /\ pc[Worker] = "chk"
    /\ ~running_
    /\ mutexHolder' = NoThread
    /\ pc' = [pc EXCEPT ![Worker] = "done"]
    /\ UNCHANGED ctlVars
    /\ UNCHANGED dataVars
    /\ UNCHANGED <<maxQueueSize_, running_, queue_, cvWaiters, task, delivered,
                   pushCount, queuedAtStop, fullAtPop, blockedAtPop,
                   pushedSincePop, dropped>>

\* task = queue_.front(); queue_.pop(); the lock is released
WorkerDequeue ==
    /\ pc[Worker] = "chk"
    /\ running_
    /\ task' = QueueFront
    /\ queue_' = QueuePop
    /\ fullAtPop' = (Len(queue_) >= maxQueueSize_)
    /\ blockedAtPop' = cvWaiters \cap Producers
    /\ pushedSincePop' = {}
    /\ mutexHolder' = NoThread
    /\ pc' = [pc EXCEPT ![Worker] = "notify"]
    /\ UNCHANGED ctlVars
    /\ UNCHANGED dataVars
    /\ UNCHANGED <<maxQueueSize_, running_, cvWaiters, delivered, pushCount,
                   queuedAtStop, dropped>>

\* faulty variant: the worker does not signal the freed slot
WorkerNotifyNone ==
    /\ pc[Worker] = "notify"
    /\ pc' = [pc EXCEPT ![Worker] = "encode"]
    /\ UNCHANGED ctlVars
    /\ UNCHANGED dataVars
    /\ UNCHANGED <<maxQueueSize_, running_, queue_, mutexHolder, cvWaiters, task,
                   delivered, pushCount, queuedAtStop, fullAtPop, blockedAtPop,
                   pushedSincePop, dropped>>

\* cv_.notify_all(): before the encoding starts
WorkerNotifyAll ==
    /\ pc[Worker] = "notify"
    /\ pc' = NotifyAllPc(Worker, "encode")
    /\ cvWaiters' = {}
    /\ UNCHANGED ctlVars
    /\ UNCHANGED dataVars
    /\ UNCHANGED <<maxQueueSize_, running_, queue_, mutexHolder, task, delivered,
                   pushCount, queuedAtStop, fullAtPop, blockedAtPop,
                   pushedSincePop, dropped>>

\* faulty variant: the callback is invoked whatever the compressor returned
WorkerEncodeAlwaysCalls ==
    /\ pc[Worker] = "encode"
    /\ \E result \in {0, -1} :
          /\ delivered' = Append(delivered, task)
          /\ failedTasks' = IF result = 0 THEN failedTasks ELSE failedTasks \cup {task}
    /\ task' = NoTask
    /\ taskData' = [taskData EXCEPT ![task] = 0]
    /\ taskAtCall' = [taskAtCall EXCEPT ![task] = 0]
    /\ pc' = [pc EXCEPT ![Worker] = "loop"]
    /\ UNCHANGED ctlVars
    /\ UNCHANGED <<maxQueueSize_, running_, queue_, mutexHolder, cvWaiters,
                   pushCount, queuedAtStop, fullAtPop, blockedAtPop,
                   pushedSincePop, dropped>>
    /\ UNCHANGED <<srcData, dataCopy, atCall>>

\* tjCompressFromYUVPlanes: result == 0 -> task.callback, else the frame is dropped
WorkerEncode ==
    /\ pc[Worker] = "encode"
    /\ \E result \in {0, -1} :
          /\ delivered' = IF result = 0 THEN Append(delivered, task) ELSE delivered
          /\ failedTasks' = IF result = 0 THEN failedTasks ELSE failedTasks \cup {task}
    /\ task' = NoTask
    /\ taskData' = [taskData EXCEPT ![task] = 0]
    /\ taskAtCall' = [taskAtCall EXCEPT ![task] = 0]
    /\ pc' = [pc EXCEPT ![Worker] = "loop"]
    /\ UNCHANGED ctlVars
    /\ UNCHANGED <<srcData, dataCopy, atCall>>
    /\ UNCHANGED <<maxQueueSize_, running_, queue_, mutexHolder, cvWaiters,
                   pushCount, queuedAtStop, fullAtPop, blockedAtPop,
                   pushedSincePop, dropped>>

\* the camera refills the source buffer once its request is queued again
OverwriteSource ==
    /\ srcData' = 1 - srcData
    /\ UNCHANGED ctlVars
    /\ UNCHANGED <<maxQueueSize_, running_, queue_, mutexHolder, cvWaiters, pc, task,
                   delivered, pushCount, queuedAtStop, fullAtPop, blockedAtPop,
                   pushedSincePop, dropped, dataCopy, atCall, taskData, taskAtCall,
                   failedTasks>>

\* ================================================================== controls
\* std::optional<T> is a set with at most one element
NoValue == {}
Has(opt) == opt # {}
Val(opt) == CHOOSE v \in opt : TRUE

\* struct Controls: every field absent
NoControls ==
    [exposureMode |-> NoValue, exposureTime |-> NoValue, analogueGain |-> NoValue,
     afMode |-> NoValue, afTrigger |-> NoValue, lensPosition |-> NoValue,
     awbMode |-> NoValue, colourGains |-> NoValue, brightness |-> NoValue,
     contrast |-> NoValue, saturation |-> NoValue, sharpness |-> NoValue,
     targetFps |-> NoValue, jpegQuality |-> NoValue]

Fields == DOMAIN NoControls

\* the values a caller passes in a field on its own (AllControls has others)
FieldValues(f) ==
    CASE f = "exposureTime" -> {1}
      [] f = "afTrigger" -> {0, 1}
      [] f = "colourGains" -> {<<1, 2>>}
      [] f = "targetFps" -> {0, 0 - 7}
      [] f = "jpegQuality" -> {90}
      [] OTHER -> {1}

\* every field present
AllControls ==
    [exposureMode |-> {1}, exposureTime |-> {2}, analogueGain |-> {1},
     afMode |-> {1}, afTrigger |-> {1}, lensPosition |-> {1},
     awbMode |-> {1}, colourGains |-> {<<1, 2>>}, brightness |-> {1},
     contrast |-> {1}, saturation |-> {1}, sharpness |-> {1},
     targetFps |-> {30}, jpegQuality |-> {50}]

\* the fields a caller passes alone (the others are passed in AllControls)
SingleFields == {"exposureTime", "targetFps", "jpegQuality"}

\* the control sets a caller passes: nothing, one field, two fields, every field
ControlInputs ==
    {NoControls, AllControls}
    \cup UNION {{[NoControls EXCEPT ![f] = {v}] : v \in FieldValues(f)} : f \in SingleFields}
    \cup {[NoControls EXCEPT !["afTrigger"] = {0}],
          [NoControls EXCEPT !["afTrigger"] = {0}, !["jpegQuality"] = {90}]}

\* a libcamera ControlList: a function from the ids that were set to their values
EmptyList == <<>>
Put(list, id, v) == [k \in DOMAIN list \cup {id} |-> IF k = id THEN v ELSE list[k]]
Overlay(list, writes) ==
    [k \in DOMAIN list \cup DOMAIN writes |-> IF k \in DOMAIN writes THEN writes[k] ELSE list[k]]

\* faulty variant: the assignment ignores whether the source is set
AssignAlways(target, source) == source

\* template assignIfSet: if (source) target = source;
AssignIfSet(target, source) == IF Has(source) THEN source ELSE target

\* C++ int division truncates toward zero (b # 0)
CDiv(a, b) ==
    IF (a >= 0) = (b > 0)
    THEN (IF a >= 0 THEN a ELSE 0 - a) \div (IF b > 0 THEN b ELSE 0 - b)
    ELSE 0 - ((IF a >= 0 THEN a ELSE 0 - a) \div (IF b > 0 THEN b ELSE 0 - b))

\* 1000000 / 0 is undefined behaviour: the build traps (SIGFPE on x86) or the
\* divide instruction yields 0 (AArch64 sdiv)
DivZeroOutcomes == {"trap", "zero"}

\* const auto duration = 1000000 / *pendingControls_.targetFps;
FrameDuration(fps, ub) == IF fps = 0 THEN 0 ELSE CDiv(1000000, fps)

\* applyControls lines 13-26: the merge of controls into pendingControls_
MergeControls(pending, controls) ==
    [exposureMode |-> AssignIfSet(pending.exposureMode, controls.exposureMode),
     exposureTime |-> AssignIfSet(pending.exposureTime, controls.exposureTime),
     analogueGain |-> AssignIfSet(pending.analogueGain, controls.analogueGain),
     afMode |-> AssignIfSet(pending.afMode, controls.afMode),
     afTrigger |-> AssignIfSet(pending.afTrigger, controls.afTrigger),
     lensPosition |-> AssignIfSet(pending.lensPosition, controls.lensPosition),
     awbMode |-> AssignIfSet(pending.awbMode, controls.awbMode),
     colourGains |-> AssignIfSet(pending.colourGains, controls.colourGains),
     brightness |-> AssignIfSet(pending.brightness, controls.brightness),
     contrast |-> AssignIfSet(pending.contrast, controls.contrast),
     saturation |-> AssignIfSet(pending.saturation, controls.saturation),
     sharpness |-> AssignIfSet(pending.sharpness, controls.sharpness),
     targetFps |-> AssignIfSet(pending.targetFps, controls.targetFps),
     jpegQuality |-> AssignIfSet(pending.jpegQuality, controls.jpegQuality)]

\* one "if (pendingControls_.x) reqControls.set(id, *pendingControls_.x)"
SetIf(list, opt, id) == IF Has(opt) THEN Put(list, id, Val(opt)) ELSE list

\* the colourGains guard: pendingControls_.colourGains->size() >= 2
GainsOk(m) == Has(m.colourGains) /\ Len(Val(m.colourGains)) >= 2

\* faulty variant: jpeg quality is set on the request like the other controls
JpegQualityToDevice(list, m) == SetIf(list, m.jpegQuality, "JpegQuality")

\* jpeg quality is promoted to current and not written to the request
JpegQualityWrite(list, m) == list

\* applyControls lines 31-104: what the call sets on request->controls()
RequestWrites(m, ub) ==
    LET w1 == SetIf(EmptyList, m.exposureMode, "AeExposureMode")
        w2 == SetIf(w1, m.exposureTime, "ExposureTime")
        w3 == SetIf(w2, m.analogueGain, "AnalogueGain")
        w4 == SetIf(w3, m.afMode, "AfMode")
        w5 == SetIf(w4, m.afTrigger, "AfTrigger")
        w6 == SetIf(w5, m.lensPosition, "LensPosition")
        w7 == SetIf(w6, m.awbMode, "AwbMode")
        w8 == IF GainsOk(m) THEN Put(w7, "ColourGains", Val(m.colourGains)) ELSE w7
        w9 == SetIf(w8, m.brightness, "Brightness")
        w10 == SetIf(w9, m.contrast, "Contrast")
        w11 == SetIf(w10, m.saturation, "Saturation")
        w12 == SetIf(w11, m.sharpness, "Sharpness")
        w13 == IF Has(m.targetFps)
               THEN Put(w12, "FrameDurationLimits",
                        <<FrameDuration(Val(m.targetFps), ub), FrameDuration(Val(m.targetFps), ub)>>)
               ELSE w12
    IN  JpegQualityWrite(w13, m)

\* the one-shot af trigger is not promoted into currentControls_
PromoteAfTrigger(current, m) == current.afTrigger

\* faulty variant: sharpness is written to the request but not promoted
PromoteControlsSkipSharpness(current, m) ==
    [f \in Fields |->
        IF f \in {"afTrigger", "sharpness"} THEN current[f]
        ELSE AssignIfSet(current[f], m[f])]

\* applyControls lines 31-104: currentControls_ after the call
PromoteControls(current, m) ==
    [exposureMode |-> AssignIfSet(current.exposureMode, m.exposureMode),
     exposureTime |-> AssignIfSet(current.exposureTime, m.exposureTime),
     analogueGain |-> AssignIfSet(current.analogueGain, m.analogueGain),
     afMode |-> AssignIfSet(current.afMode, m.afMode),
     afTrigger |-> PromoteAfTrigger(current, m),
     lensPosition |-> AssignIfSet(current.lensPosition, m.lensPosition),
     awbMode |-> AssignIfSet(current.awbMode, m.awbMode),
     colourGains |-> IF GainsOk(m) THEN m.colourGains ELSE current.colourGains,
     brightness |-> AssignIfSet(current.brightness, m.brightness),
     contrast |-> AssignIfSet(current.contrast, m.contrast),
     saturation |-> AssignIfSet(current.saturation, m.saturation),
     sharpness |-> AssignIfSet(current.sharpness, m.sharpness),
     targetFps |-> AssignIfSet(current.targetFps, m.targetFps),
     jpegQuality |-> AssignIfSet(current.jpegQuality, m.jpegQuality)]

\* faulty variant: every pending field is cleared once it was applied
ClearAllApplied(m) == NoControls

\* faulty variant: the af trigger stays pending
KeepOneShot(m) == m

\* pendingControls_.afTrigger.reset(): the only field applyControls clears
ClearOneShot(m) == [m EXCEPT !.afTrigger = NoValue]

\* the call divides by zero and the build traps
ApplyTraps(pending, controls, ub) ==
    LET m == MergeControls(pending, controls)
    IN  Has(m.targetFps) /\ Val(m.targetFps) = 0 /\ ub = "trap"

\* ControlManager::applyControls as a function of the state it reads
ApplyControls(pending, current, controls, ub) ==
    LET m == MergeControls(pending, controls)
    IN  [pending |-> ClearOneShot(m),
         current |-> PromoteControls(current, m),
         writes |-> RequestWrites(m, ub),
         merged |-> m]

\* ================================================================== StreamManager
\* the default RAW stream of configure()
DefaultRaw == [type |-> "RAW", width |-> 2304, height |-> 1296]

\* faulty variant: the RAW entries of streams[] are kept
NonRawKeepAll(configs) == configs

\* the non-RAW entries of configs, in their order
NonRaw(configs) == SelectSeq(configs, LAMBDA c : c.type # "RAW")

\* configure(): allConfigs = the RAW stream (given or default), then the
\* requested streams without the RAW ones
AllConfigs(rawStream, configs) ==
    <<IF Has(rawStream) THEN Val(rawStream) ELSE DefaultRaw>> \o NonRaw(configs)

\* configure(): jpegWidth_ / jpegHeight_ are overwritten by every JPEG stream
RECURSIVE JpegDims(_, _)
JpegDims(all, n) ==
    IF n = 0 THEN <<0, 0>>
    ELSE IF all[n].type = "JPEG" THEN <<all[n].width, all[n].height>>
    ELSE JpegDims(all, n - 1)

Streams == 1..Len(config_)

\* streamCfg.bufferCount and numRequests are the same number
BufferCount == NumRequests

\* faulty variant: RAW buffers are mapped like the others
MapsAll(type) == TRUE

\* mapBuffer: if (type == StreamType::RAW) return true;
Maps(type) == type # "RAW"

\* faulty variant: every buffer is mapped with the YUV420 size
MappedSizeYuv(type, width, height) == CDiv(width * height * 3, 2)

\* mapBuffer: totalSize
MappedSize(type, width, height) ==
    IF type = "JPEG" THEN CDiv(width * height * 3, 2) ELSE width * height * 3

\* the mappedBuffers_ entries of buffers 1..n of stream s
MapStream(s, n) ==
    IF Maps(config_[s].type)
    THEN {[stream |-> s, index |-> i,
           size |-> MappedSize(config_[s].type, config_[s].width, config_[s].height)] :
             i \in 1..n}
    ELSE {}

\* where allocateBuffers() can fail, with nbuf buffers per stream and nreq requests
FailPointsN(nbuf, nreq) ==
    {[at |-> "allocate", stream |-> s, index |-> 0] : s \in Streams}
    \cup {[at |-> "map", stream |-> s, index |-> i] :
             s \in {x \in Streams : Maps(config_[x].type)}, i \in 1..nbuf}
    \cup {[at |-> "request", stream |-> 0, index |-> i] : i \in 1..nreq}

FailPoints == FailPointsN(BufferCount, NumRequests)

NoFailure == [at |-> "none", stream |-> 0, index |-> 0]

\* the streams allocateBuffers() is through with before it reaches fail
StreamsBefore(fail) ==
    IF fail.at \in {"allocate", "map"} THEN 1..(fail.stream - 1) ELSE Streams

\* faulty variant: every request gets the first buffer of each stream
RequestBuffersFirst(i, nbuf) ==
    {[stream |-> s, index |-> 1] : s \in {x \in Streams : i <= nbuf}}

\* request i of allocateBuffers():
\*   for every stream: if (i < buffers.size()) request->addBuffer(stream, buffers[i]);
RequestBuffers(i, nbuf) ==
    {[stream |-> s, index |-> i] : s \in {x \in Streams : i <= nbuf}}

\* allocateBuffers(): the state it leaves, and its return value
AllocateBuffersN(fail, nbuf, nreq) ==
    [allocated |-> StreamsBefore(fail)
                     \cup (IF fail.at = "map" THEN {fail.stream} ELSE {}),
     streamBuffers |-> StreamsBefore(fail),
     mapped |-> UNION {MapStream(s, nbuf) : s \in StreamsBefore(fail)}
                  \cup (IF fail.at = "map" THEN MapStream(fail.stream, fail.index - 1)
                        ELSE {}),
     requests |-> IF fail.at = "none" THEN [i \in 1..nreq |-> RequestBuffers(i, nbuf)]
                  ELSE IF fail.at = "request"
                       THEN [i \in 1..(fail.index - 1) |-> RequestBuffers(i, nbuf)]
                  ELSE <<>>,
     ok |-> fail.at = "none"]

\* allocateBuffers() with the counts the orchestrator's model follows
AllocateBuffers(fail) == AllocateBuffersN(fail, BufferCount, NumRequests)

\* freeBuffers(): allocator_->free for the keys of streamBuffers_
FreedStreams == streamBuffers_

\* getStreamType
GetStreamType(s) == IF s \in DOMAIN streamTypes_ THEN streamTypes_[s] ELSE "RAW"

\* getMappedData / getMappedSize: the entry of buffer <<s, i>>, if any
Mapped(s, i) == {m \in mappedBuffers_ : m.stream = s /\ m.index = i}

\* ================================================================== CameraManager::Impl
Requests == 1..NumRequests
NoRequest == 0

\* libcamera runs requestComplete on one thread: one handler at a time
Handling == {r \in Requests : reqState[r] \in {"handling", "processed"}}

\* ghost record of an applyControls call
ApplyRecord(res, controls, before, target, prevTrigger) ==
    [arg |-> controls, before |-> before, merged |-> res.merged,
     writes |-> res.writes, target |-> target, prevTrigger |-> prevTrigger]

\* the state of ControlManager after start() has applied initialControls_ to
\* the first n requests: for (auto& request : requests()) applyControls(...)
RECURSIVE StartApply(_, _, _)
StartApply(n, init, ub) ==
    IF n = 0
    THEN [pending |-> cm_pendingControls_, current |-> cm_currentControls_,
          writes |-> EmptyList, merged |-> cm_pendingControls_,
          before |-> cm_pendingControls_, arg |-> lastApply.arg]
    ELSE LET prev == StartApply(n - 1, init, ub)
             res == ApplyControls(prev.pending, prev.current, init, ub)
         IN  [pending |-> res.pending, current |-> res.current,
              writes |-> res.writes, merged |-> res.merged,
              before |-> prev.pending, arg |-> init]

\* faulty variant: only the jpeg-quality default is filled in
WithDefaultsNoFps(c) ==
    [c EXCEPT !.jpegQuality = IF Has(c.jpegQuality) THEN c.jpegQuality ELSE {85}]

\* if (!initialControls_.targetFps) targetFps = 30; if (!jpegQuality) jpegQuality = 85;
WithDefaults(c) ==
    [c EXCEPT !.targetFps = IF Has(c.targetFps) THEN c.targetFps ELSE {30},
              !.jpegQuality = IF Has(c.jpegQuality) THEN c.jpegQuality ELSE {85}]

\* faulty variant: stop() has no early return
StopNeverReturnsEarly == FALSE

\* if (!running_) return;   (first statement of stop())
StopReturnsEarly == camState # "running"

\* CameraManager::Impl::start: allocateBuffers fails at fail
StartAllocFails(fail) ==
    /\ camState = "initialized"
    /\ ~crashed
    /\ fail \in FailPoints
    /\ LET res == AllocateBuffers(fail)
       IN  /\ allocated' = res.allocated
           /\ streamBuffers_' = res.streamBuffers
           /\ mappedBuffers_' = res.mapped
           /\ requests_' = res.requests
           /\ reqState' = [r \in Requests |-> IF r \in DOMAIN res.requests THEN "created" ELSE "none"]
    /\ camState' = "failed"
    /\ errorCalls' = errorCalls + 1
    /\ lastOp' = "start"
    /\ UNCHANGED encVars
    /\ UNCHANGED regVars
    /\ UNCHANGED callVars
    /\ UNCHANGED handlerWrites
    /\ UNCHANGED deviceQueue
    /\ UNCHANGED <<initialControls_, pendingControls_, jpegQuality_,
                   cm_pendingControls_, cm_currentControls_, reqControls,
                   encoderStarted, connected, crashed, setCalls, completions,
                   rgbDelivered, lastEncodeQuality, lastApply, stashId, stashApplied,
                   lastSetQuality, completedSinceSet>>
    /\ UNCHANGED <<config_, jpegWidth_, jpegHeight_, frames, encodeCalls, reqMeta, stopCalls>>

\* CameraManager::Impl::start: camera_->start fails after the buffers were
\* allocated, the encoder started, the signal connected and the defaults stored
StartCameraFails ==
    /\ camState = "initialized"
    /\ ~crashed
    /\ LET res == AllocateBuffers(NoFailure)
       IN  /\ allocated' = res.allocated
           /\ streamBuffers_' = res.streamBuffers
           /\ mappedBuffers_' = res.mapped
           /\ requests_' = res.requests
    /\ camState' = "failed"
    /\ reqState' = [r \in Requests |-> "created"]
    /\ encoderStarted' = TRUE
    /\ connected' = TRUE
    /\ initialControls_' = WithDefaults(initialControls_)
    /\ errorCalls' = errorCalls + 1
    /\ lastOp' = "start"
    /\ UNCHANGED encVars
    /\ UNCHANGED regVars
    /\ UNCHANGED callVars
    /\ UNCHANGED handlerWrites
    /\ UNCHANGED deviceQueue
    /\ UNCHANGED <<pendingControls_, jpegQuality_, cm_pendingControls_,
                   cm_currentControls_, reqControls, crashed, setCalls, completions,
                   rgbDelivered, lastEncodeQuality, lastApply, stashId, stashApplied,
                   lastSetQuality, completedSinceSet>>
    /\ UNCHANGED <<config_, jpegWidth_, jpegHeight_, frames, encodeCalls, reqMeta, stopCalls>>

\* CameraManager::Impl::start: the successful path
StartOk(ub) ==
    /\ camState = "initialized"
    /\ ~crashed
    /\ LET alloc == AllocateBuffers(NoFailure)
       IN  /\ allocated' = alloc.allocated
           /\ streamBuffers_' = alloc.streamBuffers
           /\ mappedBuffers_' = alloc.mapped
           /\ requests_' = alloc.requests
    /\ LET init == WithDefaults(initialControls_)
           res == StartApply(NumRequests, init, ub)
       IN  /\ initialControls_' = init
           /\ encoderStarted' = TRUE
           /\ connected' = TRUE
           /\ IF ApplyTraps(cm_pendingControls_, init, ub)
              THEN /\ crashed' = TRUE
                   /\ reqState' = [r \in Requests |-> "created"]
                   /\ UNCHANGED deviceQueue
                   /\ UNCHANGED <<camState, jpegQuality_, cm_pendingControls_,
                                  cm_currentControls_, reqControls, lastApply>>
              ELSE /\ crashed' = FALSE
                   /\ cm_pendingControls_' = res.pending
                   /\ cm_currentControls_' = res.current
                   /\ reqControls' = [r \in Requests |->
                          Overlay(reqControls[r], StartApply(r, init, ub).writes)]
                   /\ lastApply' = ApplyRecord(res, init, res.before, NumRequests,
                                      IF NumRequests > 1 THEN init.afTrigger
                                      ELSE lastApply.arg.afTrigger)
                   /\ jpegQuality_' = IF Has(init.jpegQuality) THEN Val(init.jpegQuality) ELSE 85
                   /\ reqState' = [r \in Requests |-> "queued"]
                   /\ deviceQueue' = [i \in 1..NumRequests |-> i]
                   /\ camState' = "running"
    /\ lastOp' = "start"
    /\ UNCHANGED encVars
    /\ UNCHANGED regVars
    /\ UNCHANGED callVars
    /\ UNCHANGED handlerWrites
    /\ UNCHANGED <<pendingControls_, errorCalls, setCalls, completions, rgbDelivered,
                   lastEncodeQuality, stashId, stashApplied, lastSetQuality,
                   completedSinceSet>>
    /\ UNCHANGED <<config_, jpegWidth_, jpegHeight_, frames, encodeCalls, reqMeta, stopCalls>>

\* per field, the value of the last call that supplied it
LastSupplied(acc, controls) == [f \in Fields |-> AssignIfSet(acc[f], controls[f])]

\* CameraManager::Impl::setControls: std::lock_guard lock(controlMutex_) for
\* the whole call
SetControls(controls) ==
    /\ ~crashed
    /\ setCalls < MaxSetControls
    /\ controlMutex_ = NoThread
    /\ jpegQuality_' = IF Has(controls.jpegQuality) THEN Val(controls.jpegQuality)
                       ELSE jpegQuality_
    /\ pendingControls_' = {controls}
    /\ setMerged' = LastSupplied(setMerged, controls)
    /\ setCalls' = setCalls + 1
    /\ stashId' = setCalls + 1
    /\ lastSetQuality' = controls.jpegQuality
    /\ completedSinceSet' = FALSE
    /\ UNCHANGED encVars
    /\ UNCHANGED regVars
    /\ UNCHANGED controlMutex_
    /\ UNCHANGED handlerWrites
    /\ UNCHANGED deviceQueue
    /\ UNCHANGED <<camState, initialControls_, cm_pendingControls_,
                   cm_currentControls_, reqControls, reqState, encoderStarted,
                   connected, errorCalls, crashed, completions, rgbDelivered,
                   lastEncodeQuality, lastApply, stashApplied>>
    /\ UNCHANGED smVars

\* a completion can be delivered for request r: the camera completes the
\* requests in the order they were queued
CanComplete(r) ==
    /\ camState = "running"
    /\ connected
    /\ ~crashed
    /\ reqState[r] = "queued"
    /\ deviceQueue # <<>>
    /\ r = Head(deviceQueue)
    /\ Handling = {}

\* faulty variant: a cancelled request is handed back to the camera
RequestCompleteCancelledRequeued(r) ==
    /\ CanComplete(r)
    /\ reqState' = [reqState EXCEPT ![r] = "cancelled"]
    /\ deviceQueue' = Append(Tail(deviceQueue), r)
    /\ UNCHANGED encVars
    /\ UNCHANGED regVars
    /\ UNCHANGED callVars
    /\ UNCHANGED handlerWrites
    /\ UNCHANGED <<camState, initialControls_, pendingControls_, jpegQuality_,
                   cm_pendingControls_, cm_currentControls_, reqControls,
                   encoderStarted, connected, errorCalls, crashed, setCalls,
                   completions, rgbDelivered, lastEncodeQuality, lastApply, stashId,
                   stashApplied, lastSetQuality, completedSinceSet>>
    /\ UNCHANGED smVars

\* requestComplete: if (request->status() == RequestCancelled) return;
RequestCompleteCancelled(r) ==
    /\ CanComplete(r)
    /\ reqState' = [reqState EXCEPT ![r] = "cancelled"]
    /\ deviceQueue' = Tail(deviceQueue)
    /\ UNCHANGED encVars
    /\ UNCHANGED regVars
    /\ UNCHANGED callVars
    /\ UNCHANGED handlerWrites
    /\ UNCHANGED <<camState, initialControls_, pendingControls_, jpegQuality_,
                   cm_pendingControls_, cm_currentControls_, reqControls,
                   encoderStarted, connected, errorCalls, crashed, setCalls,
                   completions, rgbDelivered, lastEncodeQuality, lastApply, stashId,
                   stashApplied, lastSetQuality, completedSinceSet>>
    /\ UNCHANGED smVars

\* request->metadata().get(SensorTimestamp) of the n-th completion
SensorTimestamp(n) == 1000 + n

\* request->sequence() and the timestamp of the n-th completion
Metadata(n) == [sequence |-> n, timestamp |-> SensorTimestamp(n)]

\* faulty variant: the handler keeps controlMutex_ until it returns
HandlerLockHeldToEnd == CameraThread

\* the lock_guard of the handler lives in the block of lines 129-135: the
\* mutex is free again when the block is left
HandlerLockAfterControls == NoThread

\* requestComplete: the block under controlMutex_
\*   if (pendingControls_.has_value()) { applyControls(*pendingControls_, request);
\*                                       pendingControls_.reset(); }
RequestCompleteControls(r, ub) ==
    /\ CanComplete(r)
    /\ controlMutex_ = NoThread
    /\ completions < MaxCompletions
    /\ completions' = completions + 1
    /\ IF Has(pendingControls_)
       THEN LET controls == Val(pendingControls_)
                res == ApplyControls(cm_pendingControls_, cm_currentControls_, controls, ub)
            IN  IF ApplyTraps(cm_pendingControls_, controls, ub)
                THEN /\ crashed' = TRUE
                     /\ UNCHANGED <<pendingControls_, cm_pendingControls_,
                                    cm_currentControls_, reqControls, reqState,
                                    deviceQueue, lastApply, stashId, stashApplied,
                                    completedSinceSet, reqMeta, handlerWrites>>
                ELSE /\ cm_pendingControls_' = res.pending
                     /\ cm_currentControls_' = res.current
                     /\ reqControls' = [reqControls EXCEPT ![r] = Overlay(@, res.writes)]
                     /\ handlerWrites' = res.writes
                     /\ lastApply' = ApplyRecord(res, controls, cm_pendingControls_, r,
                                                             lastApply.arg.afTrigger)
                     /\ pendingControls_' = NoValue
                     /\ stashApplied' = [stashApplied EXCEPT ![stashId] = @ + 1]
                     /\ stashId' = 0
                     /\ reqState' = [reqState EXCEPT ![r] = "handling"]
                     /\ reqMeta' = [reqMeta EXCEPT ![r] = Metadata(completions + 1)]
                     /\ deviceQueue' = Tail(deviceQueue)
                     /\ completedSinceSet' = TRUE
                     /\ UNCHANGED crashed
       ELSE /\ reqState' = [reqState EXCEPT ![r] = "handling"]
            /\ handlerWrites' = EmptyList
            /\ reqMeta' = [reqMeta EXCEPT ![r] = Metadata(completions + 1)]
            /\ deviceQueue' = Tail(deviceQueue)
            /\ completedSinceSet' = TRUE
            /\ UNCHANGED <<pendingControls_, cm_pendingControls_, cm_currentControls_,
                           reqControls, lastApply, stashId, stashApplied, crashed>>
    /\ UNCHANGED encVars
    /\ UNCHANGED regVars
    /\ controlMutex_' = HandlerLockAfterControls
    /\ UNCHANGED setMerged
    /\ UNCHANGED <<camState, initialControls_, jpegQuality_, encoderStarted,
                   connected, errorCalls, setCalls, rgbDelivered, lastEncodeQuality,
                   lastSetQuality>>
    /\ UNCHANGED <<config_, jpegWidth_, jpegHeight_, allocated, streamBuffers_,
                   mappedBuffers_, requests_, frames, encodeCalls, lastOp, stopCalls>>

\* the elements of a set of numbers in increasing order
RECURSIVE SetToSeq(_)
SetToSeq(S) ==
    IF S = {} THEN <<>>
    ELSE LET m == CHOOSE x \in S : \A y \in S : x <= y
         IN  <<m>> \o SetToSeq(S \ {m})

\* the stream types of the buffers of a request
BufferTypes == {"RAW", "RGB", "JPEG"}

\* request->buffers(): the streams of the buffers attached to request r
BuffersOf(r) == IF r \in DOMAIN requests_ THEN {b.stream : b \in requests_[r]} ELSE {}

\* the buffers the loop does not skip: not RAW, and with mapped data
Deliverable(r) ==
    {s \in BuffersOf(r) : GetStreamType(s) # "RAW" /\ Mapped(s, r) # {}}

RgbBuffers(r) == {s \in Deliverable(r) : GetStreamType(s) = "RGB"}

\* the frame callback's outcomes: it returns, or it throws
CallbackOutcomes == {"ok", "throws"}

\* the loop is left by the exception of the first frameCallback_ call
Aborts(r, cb) == cb = "throws" /\ RgbBuffers(r) # {}

\* the buffers the loop gets to
Reached(r, cb) ==
    IF Aborts(r, cb)
    THEN {s \in Deliverable(r) : \A x \in RgbBuffers(r) : s <= x}
    ELSE Deliverable(r)

\* Frame{span(data, size), timestamp, sequence, nullptr} of buffer s of request r
RgbFrame(r, s) ==
    [type |-> "RGB", size |-> (CHOOSE m \in Mapped(s, r) : TRUE).size,
     timestamp |-> reqMeta[r].timestamp, sequence |-> reqMeta[r].sequence,
     stream |-> s, request |-> r]

\* JpegEncoder::encode: dataSize = width * height * 3 / 2
DataSize(width, height) == CDiv(width * height * 3, 2)

\* jpegEncoder_->encode(data, getJpegWidth(), getJpegHeight(), jpegQuality_,
\*                      timestamp, sequence, frameCallback_) for buffer s of request r
EncodeCall(r, s) ==
    [width |-> jpegWidth_, height |-> jpegHeight_,
     size |-> DataSize(jpegWidth_, jpegHeight_), quality |-> jpegQuality_,
     timestamp |-> reqMeta[r].timestamp, sequence |-> reqMeta[r].sequence,
     stream |-> s, request |-> r]

RgbFrames(r, cb) ==
    LET order == SetToSeq({s \in Reached(r, cb) : GetStreamType(s) = "RGB"})
    IN  [i \in 1..Len(order) |-> RgbFrame(r, order[i])]

EncodeCalls(r, cb) ==
    LET order == SetToSeq({s \in Reached(r, cb) : GetStreamType(s) = "JPEG"})
    IN  [i \in 1..Len(order) |-> EncodeCall(r, order[i])]

\* requestComplete: the loop over the buffers: RAW and unmapped buffers are
\* skipped, RGB is delivered, JPEG is handed to the encoder with jpegQuality_.
\* An exception of frameCallback_ leaves the handler: nothing catches it.
RequestCompleteBuffers(r, cb) ==
    /\ reqState[r] = "handling"
    /\ ~crashed
    /\ frames' = frames \o RgbFrames(r, cb)
    /\ encodeCalls' = encodeCalls \o EncodeCalls(r, cb)
    /\ rgbDelivered' = rgbDelivered + Len(RgbFrames(r, cb))
    /\ lastEncodeQuality' = IF Len(EncodeCalls(r, cb)) > 0 THEN jpegQuality_
                            ELSE lastEncodeQuality
    /\ reqState' = [reqState EXCEPT ![r] = IF Aborts(r, cb) THEN "abandoned"
                                           ELSE "processed"]
    /\ UNCHANGED encVars
    /\ UNCHANGED regVars
    /\ controlMutex_' = IF Aborts(r, cb) THEN NoThread ELSE controlMutex_
    /\ UNCHANGED setMerged
    /\ UNCHANGED handlerWrites
    /\ UNCHANGED deviceQueue
    /\ UNCHANGED <<camState, initialControls_, pendingControls_, jpegQuality_,
                   cm_pendingControls_, cm_currentControls_, reqControls, encoderStarted,
                   connected, errorCalls, crashed, setCalls, completions, lastApply,
                   stashId, stashApplied, lastSetQuality, completedSinceSet>>
    /\ UNCHANGED <<config_, jpegWidth_, jpegHeight_, allocated, streamBuffers_,
                   mappedBuffers_, requests_, reqMeta, lastOp, stopCalls>>

\* request->reuse(ReuseBuffers) clears the request's control list
Reuse(list) == EmptyList

\* requestComplete: request->reuse(ReuseBuffers); camera_->queueRequest(request);
RequestCompleteFinish(r) ==
    /\ reqState[r] = "processed"
    /\ ~crashed
    /\ reqControls' = [reqControls EXCEPT ![r] = Reuse(@)]
    /\ handlerWrites' = EmptyList
    /\ reqState' = [reqState EXCEPT ![r] = "queued"]
    /\ deviceQueue' = Append(deviceQueue, r)
    /\ UNCHANGED encVars
    /\ UNCHANGED regVars
    /\ controlMutex_' = NoThread
    /\ UNCHANGED setMerged
    /\ UNCHANGED <<camState, initialControls_, pendingControls_, jpegQuality_,
                   cm_pendingControls_, cm_currentControls_, encoderStarted,
                   connected, errorCalls, crashed, setCalls, completions, lastApply,
                   stashId, stashApplied, lastSetQuality, completedSinceSet,
                   rgbDelivered, lastEncodeQuality>>
    /\ UNCHANGED smVars

\* the number of stop() calls the model follows
MaxStops == 2

\* CameraManager::Impl::stop when running_ is false: if (!running_) return;
ImplStopNoop ==
    /\ StopReturnsEarly
    /\ ~crashed
    /\ stopCalls < MaxStops
    /\ stopCalls' = stopCalls + 1
    /\ lastOp' = "stop"
    /\ UNCHANGED encVars
    /\ UNCHANGED regVars
    /\ UNCHANGED callVars
    /\ UNCHANGED handlerWrites
    /\ UNCHANGED deviceQueue
    /\ UNCHANGED <<camState, initialControls_, pendingControls_, jpegQuality_,
                   cm_pendingControls_, cm_currentControls_, reqControls, reqState,
                   encoderStarted, connected, errorCalls, crashed, setCalls,
                   completions, rgbDelivered, lastEncodeQuality, lastApply, stashId,
                   stashApplied, lastSetQuality, completedSinceSet>>
    /\ UNCHANGED <<config_, jpegWidth_, jpegHeight_, allocated, streamBuffers_,
                   mappedBuffers_, requests_, frames, encodeCalls, reqMeta>>

\* CameraManager::Impl::stop when running: running_ = false;
\* camera_->requestCompleted.disconnect(...)
ImplStopBegin ==
    /\ ~StopReturnsEarly
    /\ ~crashed
    /\ stopCalls < MaxStops
    /\ stopCalls' = stopCalls + 1
    /\ lastOp' = "stop"
    /\ camState' = "stopping"
    /\ connected' = FALSE
    /\ UNCHANGED encVars
    /\ UNCHANGED regVars
    /\ UNCHANGED callVars
    /\ UNCHANGED handlerWrites
    /\ UNCHANGED deviceQueue
    /\ UNCHANGED <<initialControls_, pendingControls_, jpegQuality_,
                   cm_pendingControls_, cm_currentControls_, reqControls, reqState,
                   encoderStarted, errorCalls, crashed, setCalls,
                   completions, rgbDelivered, lastEncodeQuality, lastApply, stashId,
                   stashApplied, lastSetQuality, completedSinceSet>>
    /\ UNCHANGED <<config_, jpegWidth_, jpegHeight_, allocated, streamBuffers_,
                   mappedBuffers_, requests_, frames, encodeCalls, reqMeta>>

\* CameraManager::Impl::stop, the rest: camera_->stop() waits for the handler
\* that is running and cancels what is queued; jpegEncoder_->stop();
\* streamManager_->freeBuffers(); camera_->release(); camera_.reset()
ImplStopFinish ==
    /\ camState = "stopping"
    /\ ~crashed
    /\ Handling = {}
    /\ camState' = "stopped"
    /\ deviceQueue' = <<>>
    /\ encoderStarted' = FALSE
    /\ mappedBuffers_' = {}
    /\ allocated' = allocated \ FreedStreams
    /\ streamBuffers_' = {}
    /\ requests_' = <<>>
    /\ reqState' = [r \in Requests |-> "none"]
    /\ UNCHANGED encVars
    /\ UNCHANGED regVars
    /\ UNCHANGED callVars
    /\ UNCHANGED handlerWrites
    /\ UNCHANGED <<initialControls_, pendingControls_, jpegQuality_,
                   cm_pendingControls_, cm_currentControls_, reqControls,
                   connected, errorCalls, crashed, setCalls,
                   completions, rgbDelivered, lastEncodeQuality, lastApply, stashId,
                   stashApplied, lastSetQuality, completedSinceSet>>
    /\ UNCHANGED <<config_, jpegWidth_, jpegHeight_, frames, encodeCalls, reqMeta,
                   lastOp, stopCalls>>

\* the CameraManager is destroyed without having run: ~Impl destroys
\* jpegEncoder_ (stop), then streamManager_, whose destructor calls
\* freeBuffers(); the state is the one freeBuffers() leaves
Destroy ==
    /\ camState \in {"failed", "stopped"}
    /\ ~crashed
    /\ camState' = "destroyed"
    /\ lastOp' = "destroy"
    /\ encoderStarted' = FALSE
    /\ mappedBuffers_' = {}
    /\ allocated' = allocated \ FreedStreams
    /\ streamBuffers_' = {}
    /\ requests_' = <<>>
    /\ reqState' = [r \in Requests |-> "none"]
    /\ UNCHANGED encVars
    /\ UNCHANGED regVars
    /\ UNCHANGED callVars
    /\ UNCHANGED handlerWrites
    /\ UNCHANGED deviceQueue
    /\ UNCHANGED <<initialControls_, pendingControls_, jpegQuality_,
                   cm_pendingControls_, cm_currentControls_, reqControls,
                   connected, errorCalls, crashed, setCalls,
                   completions, rgbDelivered, lastEncodeQuality, lastApply, stashId,
                   stashApplied, lastSetQuality, completedSinceSet>>
    /\ UNCHANGED <<config_, jpegWidth_, jpegHeight_, frames, encodeCalls, reqMeta,
                   stopCalls>>

\* ControlManager::getCurrentControls / CameraManager::getControls
GetControls == cm_currentControls_

\* the configurations initialize() stores in initialControls_
InitialInputs == {NoControls, AllControls}

\* stream requests: one RGB stream (1280x720), one JPEG stream, both, two
\* JPEG streams of different sizes, a RAW entry among the streams, none
Rgb720 == [type |-> "RGB", width |-> 1280, height |-> 720]
Jpeg720 == [type |-> "JPEG", width |-> 1280, height |-> 720]
Jpeg480 == [type |-> "JPEG", width |-> 640, height |-> 480]
Raw1080 == [type |-> "RAW", width |-> 1920, height |-> 1080]

ConfigInputs ==
    {[rawStream |-> NoValue, streams |-> <<Rgb720>>],
     [rawStream |-> NoValue, streams |-> <<Jpeg720>>],
     [rawStream |-> {Raw1080}, streams |-> <<Rgb720, Jpeg720>>],
     [rawStream |-> NoValue, streams |-> <<Jpeg480, Raw1080, Rgb720, Rgb720>>],
     [rawStream |-> NoValue, streams |-> <<Jpeg720, Jpeg480>>],
     [rawStream |-> {Raw1080}, streams |-> <<>>]}

\* the state configure() leaves for the input c
Configured(c) ==
    LET all == AllConfigs(c.rawStream, c.streams)
    IN  /\ config_ = all
        /\ jpegWidth_ = JpegDims(all, Len(all))[1]
        /\ jpegHeight_ = JpegDims(all, Len(all))[2]
        /\ streamTypes_ = [s \in 1..Len(all) |-> all[s].type]
        /\ cfgInput = c

CtlInit ==
    /\ camState = "initialized"
    /\ initialControls_ \in InitialInputs
    /\ pendingControls_ = NoValue
    /\ jpegQuality_ = 85
    /\ cm_pendingControls_ = NoControls
    /\ cm_currentControls_ = NoControls
    /\ reqControls = [r \in Requests |-> EmptyList]
    /\ reqState = [r \in Requests |-> "none"]
    /\ deviceQueue = <<>>
    /\ encoderStarted = FALSE
    /\ connected = FALSE
    /\ errorCalls = 0
    /\ crashed = FALSE
    /\ setCalls = 0
    /\ completions = 0
    /\ rgbDelivered = 0
    /\ lastEncodeQuality = 0
    /\ lastApply = [arg |-> NoControls, before |-> NoControls, merged |-> NoControls,
                    writes |-> EmptyList, target |-> NoRequest, prevTrigger |-> NoValue]
    /\ stashId = 0
    /\ stashApplied = [k \in 1..MaxSetControls |-> 0]
    /\ lastSetQuality = NoValue
    /\ completedSinceSet = FALSE
    /\ Configured([rawStream |-> NoValue, streams |-> <<Rgb720, Jpeg720>>])
    /\ allocated = {}
    /\ streamBuffers_ = {}
    /\ mappedBuffers_ = {}
    /\ requests_ = <<>>
    /\ frames = <<>>
    /\ encodeCalls = <<>>
    /\ reqMeta = [r \in Requests |-> Metadata(0)]
    /\ lastOp = "none"
    /\ stopCalls = 0
    /\ smCalls = 0
    /\ controlMutex_ = NoThread
    /\ setMerged = NoControls
    /\ lastReturn = "none"
    /\ handlerWrites = EmptyList

CtlNext ==
    \/ \E fail \in FailPoints : StartAllocFails(fail)
    \/ StartCameraFails
    \/ \E ub \in DivZeroOutcomes : StartOk(ub)
    \/ \E controls \in ControlInputs : SetControls(controls)
    \/ \E r \in Requests : RequestCompleteCancelled(r)
    \/ \E r \in Requests, ub \in DivZeroOutcomes : RequestCompleteControls(r, ub)
    \/ \E r \in Requests : RequestCompleteBuffers(r, "ok")
    \/ \E r \in Requests : RequestCompleteFinish(r)

\* initial controls that leave target-fps and jpeg-quality to the defaults
StartInputs ==
    {NoControls, [NoControls EXCEPT !.exposureTime = {1}, !.afTrigger = {1}]}

\* the lifecycle and the frame path: every stream configuration, every
\* failure of start(), stop() and destruction, callbacks that throw
CamInit ==
    /\ camState \in {"new", "initFailed", "initialized"}
    /\ initialControls_ \in StartInputs
    /\ pendingControls_ = NoValue
    /\ jpegQuality_ = 85
    /\ cm_pendingControls_ = NoControls
    /\ cm_currentControls_ = NoControls
    /\ reqControls = [r \in Requests |-> EmptyList]
    /\ reqState = [r \in Requests |-> "none"]
    /\ deviceQueue = <<>>
    /\ encoderStarted = FALSE
    /\ connected = FALSE
    /\ errorCalls = 0
    /\ crashed = FALSE
    /\ setCalls = 0
    /\ completions = 0
    /\ rgbDelivered = 0
    /\ lastEncodeQuality = 0
    /\ lastApply = [arg |-> NoControls, before |-> NoControls, merged |-> NoControls,
                    writes |-> EmptyList, target |-> NoRequest, prevTrigger |-> NoValue]
    /\ stashId = 0
    /\ stashApplied = [k \in 1..MaxSetControls |-> 0]
    /\ lastSetQuality = NoValue
    /\ completedSinceSet = FALSE
    /\ \E c \in ConfigInputs : Configured(c)
    /\ allocated = {}
    /\ streamBuffers_ = {}
    /\ mappedBuffers_ = {}
    /\ requests_ = <<>>
    /\ frames = <<>>
    /\ encodeCalls = <<>>
    /\ reqMeta = [r \in Requests |-> Metadata(0)]
    /\ lastOp = "none"
    /\ stopCalls = 0
    /\ smCalls = 0
    /\ controlMutex_ = NoThread
    /\ setMerged = NoControls
    /\ lastReturn = "none"
    /\ handlerWrites = EmptyList

CamNext ==
    \/ \E fail \in FailPoints : StartAllocFails(fail)
    \/ StartCameraFails
    \/ StartOk("zero")
    \/ \E r \in Requests : RequestCompleteCancelled(r)
    \/ \E r \in Requests : RequestCompleteControls(r, "zero")
    \/ \E r \in Requests, cb \in CallbackOutcomes : RequestCompleteBuffers(r, cb)
    \/ \E r \in Requests : RequestCompleteFinish(r)
    \/ ImplStopNoop
    \/ ImplStopBegin
    \/ ImplStopFinish
    \/ Destroy

\* ================================================================== StreamManager on its own
\* const size_t numRequests = 6;
numRequests == 6

\* streamCfg.bufferCount = 6;
bufferCount == 6

\* the number of calls on the StreamManager the model follows
MaxSmCalls == 4

\* what the orchestrator holds besides the StreamManager
implVars == <<camState, initialControls_, pendingControls_, jpegQuality_,
              cm_pendingControls_, cm_currentControls_, reqControls, reqState,
              deviceQueue, encoderStarted, connected, errorCalls, setCalls,
              completions, rgbDelivered, lastEncodeQuality, lastApply, stashId,
              stashApplied, lastSetQuality, completedSinceSet, frames, encodeCalls,
              reqMeta, stopCalls, handlerWrites, controlMutex_, setMerged>>

\* configure(): generateConfiguration() returns null, validate() says Invalid,
\* camera_->configure() fails, or all three succeed
ConfigureOutcomes == {"generateFails", "invalid", "configureFails", "ok"}

\* some stream of the list is a JPEG stream
HasJpeg(all) == \E i \in 1..Len(all) : all[i].type = "JPEG"

\* StreamManager::configure(rawStream, configs)
SmConfigure(c, outcome) ==
    /\ ~crashed
    /\ smCalls < MaxSmCalls
    /\ allocated = {}
    /\ requests_ = <<>>
    /\ smCalls' = smCalls + 1
    /\ lastOp' = "configure"
    /\ cfgInput' = c
    /\ lastReturn' = IF outcome = "ok" THEN "true" ELSE "false"
    /\ LET all == AllConfigs(c.rawStream, c.streams)
       IN  IF outcome = "generateFails"
           THEN /\ config_' = <<>>
                /\ UNCHANGED <<streamTypes_, jpegWidth_, jpegHeight_>>
           ELSE /\ config_' = all
                /\ jpegWidth_' = IF HasJpeg(all) THEN JpegDims(all, Len(all))[1]
                                 ELSE jpegWidth_
                /\ jpegHeight_' = IF HasJpeg(all) THEN JpegDims(all, Len(all))[2]
                                  ELSE jpegHeight_
                /\ streamTypes_' = IF outcome = "ok"
                                   THEN [s \in 1..Len(all) |-> all[s].type]
                                   ELSE <<>>
    /\ UNCHANGED encVars
    /\ UNCHANGED implVars
    /\ UNCHANGED <<crashed, allocated, streamBuffers_, mappedBuffers_, requests_>>

\* the failures of allocateBuffers() that the state leaves open: the allocator
\* refuses a stream that is not part of the active configuration, and a
\* stream it still holds buffers for
SmFailPoints ==
    IF streamTypes_ = <<>>
    THEN {[at |-> "allocate", stream |-> 1, index |-> 0]}
    ELSE IF allocated # {}
         THEN {[at |-> "allocate", stream |-> s, index |-> 0] :
                  s \in {x \in allocated : \A y \in allocated : x <= y}}
         ELSE FailPointsN(bufferCount, numRequests) \cup {NoFailure}

\* StreamManager::allocateBuffers() with a configuration in config_
SmAllocateBuffers(fail) ==
    /\ ~crashed
    /\ smCalls < MaxSmCalls
    /\ config_ # <<>>
    /\ streamBuffers_ = {}
    /\ requests_ = <<>>
    /\ fail \in SmFailPoints
    /\ smCalls' = smCalls + 1
    /\ lastOp' = "allocateBuffers"
    /\ LET res == AllocateBuffersN(fail, bufferCount, numRequests)
       IN  /\ allocated' = allocated \cup res.allocated
           /\ streamBuffers_' = res.streamBuffers
           /\ mappedBuffers_' = res.mapped
           /\ requests_' = res.requests
           /\ lastReturn' = IF res.ok THEN "true" ELSE "false"
    /\ UNCHANGED encVars
    /\ UNCHANGED implVars
    /\ UNCHANGED <<crashed, config_, jpegWidth_, jpegHeight_, streamTypes_, cfgInput>>

\* for (auto &streamCfg : *config_) with config_ == nullptr is undefined: the
\* read through the null pointer traps, or it yields an empty range
NullConfigOutcomes == {"trap", "empty"}

\* StreamManager::allocateBuffers() with config_ == nullptr
SmAllocateBuffersNull(ub) ==
    /\ ~crashed
    /\ smCalls < MaxSmCalls
    /\ config_ = <<>>
    /\ requests_ = <<>>
    /\ smCalls' = smCalls + 1
    /\ lastOp' = "allocateBuffers"
    /\ IF ub = "trap"
       THEN /\ crashed' = TRUE
            /\ UNCHANGED <<requests_, lastReturn>>
       ELSE /\ requests_' = [i \in 1..numRequests |-> {}]
            /\ lastReturn' = "true"
            /\ UNCHANGED crashed
    /\ UNCHANGED encVars
    /\ UNCHANGED implVars
    /\ UNCHANGED <<config_, jpegWidth_, jpegHeight_, streamTypes_, cfgInput,
                   allocated, streamBuffers_, mappedBuffers_>>

\* faulty variant: freeBuffers() leaves the request list alone
FreeBuffersKeepRequests ==
    [mapped |-> {}, allocated |-> allocated \ FreedStreams, streamBuffers |-> {},
     requests |-> requests_]

\* freeBuffers(): the state it leaves
FreeBuffers ==
    [mapped |-> {}, allocated |-> allocated \ FreedStreams, streamBuffers |-> {},
     requests |-> <<>>]

\* StreamManager::freeBuffers()
SmFreeBuffers ==
    /\ ~crashed
    /\ smCalls < MaxSmCalls
    /\ smCalls' = smCalls + 1
    /\ lastOp' = "freeBuffers"
    /\ lastReturn' = IF mappedBuffers_ = {} /\ streamBuffers_ = {} /\ requests_ = <<>>
                     THEN "nothing" ELSE "released"
    /\ mappedBuffers_' = FreeBuffers.mapped
    /\ allocated' = FreeBuffers.allocated
    /\ streamBuffers_' = FreeBuffers.streamBuffers
    /\ requests_' = FreeBuffers.requests
    /\ UNCHANGED encVars
    /\ UNCHANGED implVars
    /\ UNCHANGED <<crashed, config_, jpegWidth_, jpegHeight_, streamTypes_, cfgInput>>

\* the StreamManager after construction
SmInit ==
    /\ camState = "new"
    /\ initialControls_ = NoControls
    /\ pendingControls_ = NoValue
    /\ jpegQuality_ = 85
    /\ cm_pendingControls_ = NoControls
    /\ cm_currentControls_ = NoControls
    /\ reqControls = [r \in Requests |-> EmptyList]
    /\ reqState = [r \in Requests |-> "none"]
    /\ deviceQueue = <<>>
    /\ encoderStarted = FALSE
    /\ connected = FALSE
    /\ errorCalls = 0
    /\ crashed = FALSE
    /\ setCalls = 0
    /\ completions = 0
    /\ rgbDelivered = 0
    /\ lastEncodeQuality = 0
    /\ lastApply = [arg |-> NoControls, before |-> NoControls, merged |-> NoControls,
                    writes |-> EmptyList, target |-> NoRequest, prevTrigger |-> NoValue]
    /\ stashId = 0
    /\ stashApplied = [k \in 1..MaxSetControls |-> 0]
    /\ lastSetQuality = NoValue
    /\ completedSinceSet = FALSE
    /\ config_ = <<>>
    /\ jpegWidth_ = 0
    /\ jpegHeight_ = 0
    /\ streamTypes_ = <<>>
    /\ cfgInput = [rawStream |-> NoValue, streams |-> <<>>]
    /\ allocated = {}
    /\ streamBuffers_ = {}
    /\ mappedBuffers_ = {}
    /\ requests_ = <<>>
    /\ frames = <<>>
    /\ encodeCalls = <<>>
    /\ reqMeta = [r \in Requests |-> Metadata(0)]
    /\ lastOp = "none"
    /\ stopCalls = 0
    /\ smCalls = 0
    /\ controlMutex_ = NoThread
    /\ setMerged = NoControls
    /\ lastReturn = "none"
    /\ handlerWrites = EmptyList

SmNext ==
    \/ \E c \in ConfigInputs, outcome \in ConfigureOutcomes : SmConfigure(c, outcome)
    \/ \E fail \in SmFailPoints : SmAllocateBuffers(fail)
    \/ \E ub \in NullConfigOutcomes : SmAllocateBuffersNull(ub)
    \/ SmFreeBuffers

\* ------------------------------------------------------------------ specification
EncInit ==
    /\ running_ = FALSE
    /\ queue_ = <<>>
    /\ mutexHolder = NoThread
    /\ cvWaiters = {}
    /\ pc = [t \in Threads |-> IF t = Worker THEN "none"
                               ELSE IF t = Controller THEN "new" ELSE "idle"]
    /\ task = NoTask
    /\ delivered = <<>>
    /\ pushCount = 0
    /\ queuedAtStop = {}
    /\ fullAtPop = FALSE
    /\ blockedAtPop = {}
    /\ pushedSincePop = {}
    /\ dropped = FALSE
    /\ srcData = 0
    /\ dataCopy = [p \in Producers |-> 0]
    /\ atCall = [p \in Producers |-> 0]
    /\ taskData = [t \in 1..MaxTasks |-> 0]
    /\ taskAtCall = [t \in 1..MaxTasks |-> 0]
    /\ failedTasks = {}

ProducerStep(p) ==
    \/ EncodeLock(p)
    \/ EncodeTestPred(p)
    \/ EncodeBlock(p)
    \/ CvRelock(p)
    \/ EncodeReturnStopped(p)
    \/ EncodePush(p)
    \/ EncodeNotifyOne(p)

WorkerStep ==
    \/ WorkerLoop
    \/ WorkerLock
    \/ WorkerTestPred
    \/ WorkerBlock
    \/ CvRelock(Worker)
    \/ WorkerBreak
    \/ WorkerDequeue
    \/ WorkerNotifyAll
    \/ WorkerEncode

ControllerStep ==
    \/ Start
    \/ StopFlag
    \/ StopNotify
    \/ StopJoin

Next ==
    \/ \E p \in Producers : ProducerStep(p)
    \/ WorkerStep
    \/ ControllerStep
    \/ \E t \in Producers \cup {Worker} : SpuriousWakeup(t)

\* the encoder's threads, with the orchestrator left as initialized
Init ==
    /\ maxQueueSize_ \in 1..MaxQueueSize
    /\ EncInit
    /\ CtlInit
    /\ initialControls_ = NoControls

Spec == Init /\ [][Next]_vars

\* the orchestrator's control path, with the encoder left as constructed
InitCtl ==
    /\ maxQueueSize_ = MaxQueueSize
    /\ EncInit
    /\ CtlInit

SpecCtl == InitCtl /\ [][CtlNext]_vars

\* the orchestrator's lifecycle and frame path, with the encoder left as constructed
InitCam ==
    /\ maxQueueSize_ = MaxQueueSize
    /\ EncInit
    /\ CamInit

SpecCam == InitCam /\ [][CamNext]_vars

\* the StreamManager called directly, with the encoder left as constructed
InitSm ==
    /\ maxQueueSize_ = MaxQueueSize
    /\ EncInit
    /\ SmInit

SpecSm == InitSm /\ [][SmNext]_vars

\* the encoder as the orchestrator drives it: one caller of encode()
NextOne ==
    \/ ProducerStep(CameraThread)
    \/ WorkerStep
    \/ ControllerStep
    \/ \E t \in {CameraThread, Worker} : SpuriousWakeup(t)

\* ... while the camera keeps refilling the source buffer
NextCopy ==
    \/ NextOne
    \/ OverwriteSource

SpecCopy == Init /\ [][NextCopy]_vars

\* ------------------------------------------------------------------ stop() with the encoder
\* camera_->stop() is a blocking call into libcamera's thread: it returns when
\* the completion handler that is running, encode() included, has returned
DeviceStopWaits == Handling = {} /\ pc[CameraThread] = "idle"

\* CameraManager::Impl::stop: camera_->stop(); what was queued is cancelled
StopDevice ==
    /\ camState = "stopping"
    /\ ~crashed
    /\ DeviceStopWaits
    /\ camState' = "deviceStopped"
    /\ deviceQueue' = <<>>
    /\ UNCHANGED encVars
    /\ UNCHANGED regVars
    /\ UNCHANGED callVars
    /\ UNCHANGED handlerWrites
    /\ UNCHANGED <<initialControls_, pendingControls_, jpegQuality_,
                   cm_pendingControls_, cm_currentControls_, reqControls, reqState,
                   encoderStarted, connected, errorCalls, crashed, setCalls,
                   completions, rgbDelivered, lastEncodeQuality, lastApply, stashId,
                   stashApplied, lastSetQuality, completedSinceSet>>
    /\ UNCHANGED <<config_, jpegWidth_, jpegHeight_, allocated, streamBuffers_,
                   mappedBuffers_, requests_, frames, encodeCalls, reqMeta, lastOp,
                   stopCalls>>

\* faulty variant: jpegEncoder_->stop() returns without joining the worker
EncoderStopNotJoined == pc[Controller] \in {"join", "stopped"}

\* jpegEncoder_->stop() has returned: worker_.join() is its last statement
EncoderStopReturned == pc[Controller] = "stopped"

\* CameraManager::Impl::stop, after jpegEncoder_->stop():
\* streamManager_->freeBuffers(); camera_->release(); camera_.reset()
StopRelease ==
    /\ camState = "deviceStopped"
    /\ ~crashed
    /\ EncoderStopReturned
    /\ camState' = "stopped"
    /\ encoderStarted' = FALSE
    /\ mappedBuffers_' = {}
    /\ allocated' = allocated \ FreedStreams
    /\ streamBuffers_' = {}
    /\ requests_' = <<>>
    /\ reqState' = [r \in Requests |-> "none"]
    /\ UNCHANGED encVars
    /\ UNCHANGED regVars
    /\ UNCHANGED callVars
    /\ UNCHANGED handlerWrites
    /\ UNCHANGED deviceQueue
    /\ UNCHANGED <<initialControls_, pendingControls_, jpegQuality_,
                   cm_pendingControls_, cm_currentControls_, reqControls,
                   connected, errorCalls, crashed, setCalls,
                   completions, rgbDelivered, lastEncodeQuality, lastApply, stashId,
                   stashApplied, lastSetQuality, completedSinceSet>>
    /\ UNCHANGED <<config_, jpegWidth_, jpegHeight_, frames, encodeCalls, reqMeta,
                   lastOp, stopCalls>>

\* start(): jpegEncoder_->start() is part of the call, nothing runs in between
PipeEncoderStart ==
    /\ camState = "running"
    /\ Start

\* requestComplete, entered once start() has returned
PipeCompleteControls(r) ==
    /\ pc[Controller] = "run"
    /\ RequestCompleteControls(r, "zero")

\* the handler's calls of jpegEncoder_->encode, one per entry of encodeCalls;
\* the handler is never inside encode() with running_ false
PipeEncode ==
    \/ /\ pushCount < Len(encodeCalls)
       /\ EncodeLock(CameraThread)
    \/ EncodeTestPred(CameraThread)
    \/ EncodeBlock(CameraThread)
    \/ CvRelock(CameraThread)
    \/ EncodePush(CameraThread)
    \/ EncodeNotifyOne(CameraThread)

\* the handler's last statements, after its encode() calls have returned
PipeCompleteFinish(r) ==
    /\ pushCount = Len(encodeCalls)
    /\ pc[CameraThread] = "idle"
    /\ RequestCompleteFinish(r)

\* stop() on the running orchestrator
PipeStopBegin ==
    /\ pc[Controller] = "run"
    /\ ImplStopBegin

\* jpegEncoder_->stop(), called once camera_->stop() has returned
PipeEncoderStop ==
    /\ camState = "deviceStopped"
    /\ \/ StopFlag
       \/ StopNotify
       \/ StopJoin

\* the control sets the application passes while the pipeline runs
PipeControlInputs == {[NoControls EXCEPT !.jpegQuality = {90}]}

PipeNext ==
    \/ StartOk("zero")
    \/ \E controls \in PipeControlInputs : SetControls(controls)
    \/ PipeEncoderStart
    \/ \E r \in Requests : PipeCompleteControls(r)
    \/ \E r \in Requests : RequestCompleteBuffers(r, "ok")
    \/ PipeEncode
    \/ \E r \in Requests : PipeCompleteFinish(r)
    \/ WorkerStep
    \/ \E t \in {CameraThread, Worker} : SpuriousWakeup(t)
    \/ PipeStopBegin
    \/ StopDevice
    \/ PipeEncoderStop
    \/ StopRelease

\* the orchestrator with its encoder: start, completions, stop
SpecPipe == Init /\ [][PipeNext]_vars

\* A thread inside encode() keeps running; nobody is obliged to call encode().
ProducerInCallStep(p) ==
    \/ EncodeTestPred(p)
    \/ EncodeBlock(p)
    \/ CvRelock(p)
    \/ EncodeReturnStopped(p)
    \/ EncodePush(p)
    \/ EncodeNotifyOne(p)

\* The thread that called start() or stop() runs to the end of the call;
\* nobody is obliged to call stop().
ControllerInCallStep ==
    \/ Start
    \/ StopNotify
    \/ StopJoin

\* The scheduler runs every runnable thread and a free mutex is eventually
\* obtained; a spurious wake-up is never owed.
FairSpec ==
    /\ Spec
    /\ SF_vars(WorkerStep)
    /\ WF_vars(ControllerInCallStep)
    /\ \A p \in Producers : SF_vars(ProducerInCallStep(p))

\* the same scheduling for the encoder with its one caller
FairSpecOne ==
    /\ Init
    /\ [][NextOne]_vars
    /\ SF_vars(WorkerStep)
    /\ WF_vars(ControllerInCallStep)
    /\ SF_vars(ProducerInCallStep(CameraThread))

\* ------------------------------------------------------------------ JpegEncoder properties
QueuedTasks == {queue_[i] : i \in 1..Len(queue_)}

\* C1: the queue never holds more than maxQueueSize_ tasks, and no encode()
\* call has returned while running_ without having pushed exactly one task
\* (a full queue blocks the caller, it does not drop the frame).
C1_BoundedQueueNoDrop ==
    /\ Len(queue_) <= maxQueueSize_
    /\ ~dropped

\* a producer that was blocked on a full queue has pushed and returned, with
\* the encoder running and the queue full again
C1_Witness ==
    /\ running_
    /\ fullAtPop
    /\ Len(queue_) = maxQueueSize_
    /\ \E p \in blockedAtPop : p \in pushedSincePop /\ pc[p] = "idle"

\* every producer that was blocked at the last pop is blocked again or has returned
SettledAfterPop ==
    /\ pc[Worker] # "notify"
    /\ \A p \in blockedAtPop : p \in cvWaiters \/ pc[p] = "idle"

\* C2: after one dequeue from a full queue on which two or more producers
\* were blocked, and no other dequeue and no push by another caller, once the
\* woken producers have run exactly one of them has pushed its task and every
\* other one is blocked in cv_.wait again.
C2_OneDequeueUnblocksOne ==
    ( /\ running_
      /\ fullAtPop
      /\ Cardinality(blockedAtPop) >= 2
      /\ pushedSincePop \subseteq blockedAtPop
      /\ SettledAfterPop )
    => /\ Cardinality(pushedSincePop) = 1
       /\ \A p \in blockedAtPop \ pushedSincePop : p \in cvWaiters

C2_Witness ==
    /\ running_
    /\ fullAtPop
    /\ Cardinality(blockedAtPop) >= 2
    /\ SettledAfterPop
    /\ \E p \in blockedAtPop : pushedSincePop = {p} /\ pc[p] = "idle"
    /\ \E q \in blockedAtPop : q \notin pushedSincePop /\ q \in cvWaiters

\* the task in flight is finished when stop() returns
InFlightFinished ==
    pc[Controller] = "stopped" => (pc[Worker] = "done" /\ task = NoTask)

\* no task that was queued when stop() cleared running_ is encoded or delivered
QueuedAtStopDiscarded ==
    \A t \in queuedAtStop :
        /\ task # t
        /\ \A i \in 1..Len(delivered) : delivered[i] # t

\* C3: stop() on a running encoder always returns, the task in flight is
\* finished before it returns, and no task still queued at shutdown is encoded
\* or delivered.
C3_StopReturnsAndDiscards ==
    /\ (pc[Controller] = "notify") ~> (pc[Controller] = "stopped")
    /\ []InFlightFinished
    /\ []QueuedAtStopDiscarded

\* C4: callbacks are invoked in the order the tasks were pushed (a task is
\* named by its push number, so delivered is strictly increasing).
C4_FifoDelivery ==
    \A i, j \in 1..Len(delivered) : i < j => delivered[i] < delivered[j]

C4_Witness ==
    /\ Len(delivered) >= 2
    /\ Len(queue_) >= 1

\* the tasks in queue_ and the one the worker holds
QueuedOrInFlight == QueuedTasks \cup (IF task = NoTask THEN {} ELSE {task})

\* C16: the bytes a queued or in-flight task is encoded from are the bytes the
\* source buffer held when its encode() call was made, whatever was written to
\* the source buffer since (while the call was blocked, or after it returned).
C16_TaskDataIsCopyAtCall ==
    \A t \in QueuedOrInFlight : taskData[t] = taskAtCall[t]

\* a producer that was blocked on the full queue has pushed its task, and the
\* source buffer no longer holds the bytes of that task
C16_Witness ==
    /\ \E p \in blockedAtPop \cap pushedSincePop : pc[p] = "notify"
    /\ pushCount \in QueuedOrInFlight
    /\ taskData[pushCount] # srcData

\* the callback of a failed task is never invoked
FailedNotDelivered ==
    \A t \in failedTasks : \A i \in 1..Len(delivered) : delivered[i] # t

\* the worker is through with task t: its callback ran or its encoding failed
Processed(t) ==
    \/ t \in failedTasks
    \/ \E i \in 1..Len(delivered) : delivered[i] = t

\* C17: a failed encoding never reaches the callback, and does not halt the
\* worker: once an encoding has failed, every task in the queue is processed
\* unless the encoder is stopped.
C17_FailureDropsOneFrame ==
    /\ []FailedNotDelivered
    /\ \A t \in 1..MaxTasks :
          (failedTasks # {} /\ t \in QueuedTasks) ~> (Processed(t) \/ ~running_)

\* a task pushed after a failed one has been delivered
C17_Witness ==
    \E t \in failedTasks : \E i \in 1..Len(delivered) : delivered[i] > t

\* ------------------------------------------------------------------ control properties
\* an applyControls call has been made
Applied == lastApply.target # NoRequest

\* C5: an af-trigger is written by the applyControls call that carries it and
\* by no later call: pending.afTrigger is absent after every call, and a call
\* whose controls carry no af-trigger does not set AfTrigger on its request.
C5_AfTriggerOneShot ==
    /\ ~Has(cm_pendingControls_.afTrigger)
    /\ Applied =>
        IF Has(lastApply.arg.afTrigger)
        THEN /\ "AfTrigger" \in DOMAIN lastApply.writes
             /\ lastApply.writes["AfTrigger"] = Val(lastApply.arg.afTrigger)
        ELSE "AfTrigger" \notin DOMAIN lastApply.writes

\* a call without af-trigger directly after a call that carried one
C5_Witness ==
    /\ Applied
    /\ Has(lastApply.prevTrigger)
    /\ ~Has(lastApply.arg.afTrigger)
    /\ DOMAIN lastApply.writes # {}

\* C6: once a completion has passed the control step after
\* setControls({jpegQuality: q}), getControls().jpegQuality is q; and no
\* request's control list ever holds a jpeg-quality entry.
C6_JpegQualityCurrentNotDevice ==
    /\ (Has(lastSetQuality) /\ completedSinceSet) => GetControls.jpegQuality = lastSetQuality
    /\ \A r \in Requests : "JpegQuality" \notin DOMAIN reqControls[r]

C6_Witness ==
    /\ lastSetQuality = {90}
    /\ completedSinceSet
    /\ initialControls_.jpegQuality = {50}
    /\ \E r \in Requests : reqState[r] = "handling" /\ DOMAIN reqControls[r] # {}

\* C7: the merge is field-wise: a field present in the new controls replaces
\* the pending value, an absent one leaves the pending value as it was.
C7_MergeFieldwise ==
    Applied =>
        \A f \in Fields :
            lastApply.merged[f] = IF Has(lastApply.arg[f]) THEN lastApply.arg[f]
                                  ELSE lastApply.before[f]

\* one field overwritten with another value and one absent field kept
C7_Witness ==
    /\ Applied
    /\ \E f \in Fields : /\ Has(lastApply.arg[f])
                         /\ Has(lastApply.before[f])
                         /\ lastApply.arg[f] # lastApply.before[f]
    /\ \E g \in Fields : ~Has(lastApply.arg[g]) /\ Has(lastApply.before[g])

\* C8 as stated: after applyControls every field present in pending after the
\* merge is present in current with that value.
C8_EveryFieldPromoted ==
    Applied =>
        \A f \in Fields : Has(lastApply.merged[f]) => GetControls[f] = lastApply.merged[f]

\* C8 amended: every field except af-trigger that is present after the merge
\* is in current with that value; af-trigger is never in current.
C8_AllButAfTriggerPromoted ==
    /\ Applied =>
        \A f \in Fields \ {"afTrigger"} :
            Has(lastApply.merged[f]) => GetControls[f] = lastApply.merged[f]
    /\ ~Has(GetControls.afTrigger)

C8_Witness ==
    /\ Applied
    /\ Has(lastApply.merged.afTrigger)
    /\ \A f \in Fields \ {"afTrigger"} : Has(GetControls[f])
    /\ GetControls.exposureTime # AllControls.exposureTime

\* q is the quotient a / b truncated toward zero
IsQuotient(q, a, b) ==
    LET abs(x) == IF x >= 0 THEN x ELSE 0 - x
    IN  /\ abs(q) * abs(b) <= abs(a)
        /\ abs(a) < (abs(q) + 1) * abs(b)
        /\ (q # 0) => ((q > 0) = ((a > 0) = (b > 0)))

\* the FrameDurationLimits entry of the last applyControls call is <<q, q>>
\* with q the quotient 1000000 / fps
DurationIsQuotient(fps) ==
    /\ "FrameDurationLimits" \in DOMAIN lastApply.writes
    /\ LET limits == lastApply.writes["FrameDurationLimits"]
       IN  /\ Len(limits) = 2
           /\ limits[1] = limits[2]
           /\ IsQuotient(limits[1], 1000000, fps)
           /\ (fps = 30) => limits = <<33333, 33333>>

\* C9: every target-fps value applied gives the request the pair <<q, q>>
\* with q the integer quotient 1000000 / fps (33333 for 30 fps).
C9_FrameDurationFromFps ==
    (Applied /\ Has(lastApply.merged.targetFps))
        => DurationIsQuotient(Val(lastApply.merged.targetFps))

\* the same for the values that have a quotient
C9_NonZeroFps ==
    (Applied /\ Has(lastApply.merged.targetFps) /\ Val(lastApply.merged.targetFps) # 0)
        => DurationIsQuotient(Val(lastApply.merged.targetFps))

\* every control set that is no longer stashed was applied to exactly one request
StashAppliedOnce ==
    \A k \in 1..setCalls : k # stashId => stashApplied[k] = 1

\* request r enters the handler in this step
PassesControlStep(r) == reqState[r] = "queued" /\ reqState'[r] = "handling"

\* the orchestrator's pending set is empty when the control step is passed
PendingClearedByHandler ==
    (\E r \in Requests : PassesControlStep(r)) => ~Has(pendingControls_')

\* a completion that finds no pending set leaves its request's controls alone
NoPendingNoApply ==
    (\E r \in Requests : PassesControlStep(r) /\ ~Has(pendingControls_))
        => (reqControls' = reqControls /\ lastApply' = lastApply)

\* C10: a control set stashed by setControls is applied to exactly one
\* request, at the next handled completion, which leaves the pending set
\* empty; a completion that finds no pending set applies nothing.
C10_StashAppliedToNextCompletion ==
    /\ []StashAppliedOnce
    /\ [][PendingClearedByHandler]_vars
    /\ [][NoPendingNoApply]_vars

\* the parts of C10 that concern one completion
HandlerControlStep ==
    /\ [][PendingClearedByHandler]_vars
    /\ [][NoPendingNoApply]_vars

\* ------------------------------------------------------------------ completion handler properties
\* the step in which the handler returns at once for the cancelled request r
CancelledStep(r) == reqState[r] = "queued" /\ reqState'[r] = "cancelled"

\* r occurs n times in the device queue
QueuedTimes(r) == Cardinality({i \in 1..Len(deviceQueue) : deviceQueue[i] = r})

\* C11: the completion of a cancelled request changes nothing: the pending
\* controls are neither applied nor cleared, no frame callback runs, no encode
\* task is submitted, and the request is neither reused nor queued again.
C11_CancelledIgnored ==
    [][\A r \in Requests : CancelledStep(r) =>
          /\ UNCHANGED <<pendingControls_, cm_pendingControls_, cm_currentControls_,
                         reqControls, lastApply, stashId, stashApplied>>
          /\ UNCHANGED <<frames, rgbDelivered, encodeCalls, lastEncodeQuality>>
          /\ UNCHANGED encVars
          /\ UNCHANGED regVars
    /\ UNCHANGED callVars
          /\ UNCHANGED handlerWrites
          /\ QueuedTimes(r)' = 0]_vars

\* a cancelled request that carries controls, with a control set still pending
C11_Witness ==
    \E r \in Requests :
        /\ reqState[r] = "cancelled"
        /\ DOMAIN reqControls[r] # {}
        /\ Has(pendingControls_)

\* the completion of r has been handled to its end
Handled(r) == reqState[r] \in {"processed", "queued"} /\ reqMeta[r].sequence > 0

\* C12: every handled completion ends with the request reused and queued
\* again exactly once, whatever the handler met: no request is left behind by
\* a handler, and a request is in the device queue once if it is queued and
\* not at all otherwise.
C12_AlwaysRequeued ==
    \A r \in Requests :
        /\ reqState[r] # "abandoned"
        /\ QueuedTimes(r) = IF reqState[r] = "queued" THEN 1 ELSE 0

\* C13: no buffer of a RAW stream is in mappedBuffers_, and no frame callback
\* and no encode call is made for a buffer of a RAW stream.
C13_RawNeverMappedNorDelivered ==
    /\ \A m \in mappedBuffers_ : config_[m.stream].type # "RAW"
    /\ \A i \in 1..Len(frames) :
          frames[i].type # "RAW" /\ config_[frames[i].stream].type # "RAW"
    /\ \A i \in 1..Len(encodeCalls) : config_[encodeCalls[i].stream].type # "RAW"

\* a RAW stream was requested explicitly, its buffers are allocated, and
\* frames of the other streams have been delivered
C13_Witness ==
    /\ config_[1] = Raw1080
    /\ 1 \in allocated
    /\ mappedBuffers_ # {}
    /\ Len(frames) > 0
    /\ Len(encodeCalls) > 0

\* the frame callbacks made for buffer s in the current completion of r
FramesFor(r, s) ==
    {i \in 1..Len(frames) : /\ frames[i].request = r
                            /\ frames[i].stream = s
                            /\ frames[i].sequence = reqMeta[r].sequence}

\* C14: when the handler of a completion is through with the buffers (and so
\* before the request is queued again) the frame callback has run exactly once
\* for every RGB buffer of the request, with type RGB, the request's timestamp
\* and sequence and width * height * 3 bytes; it has run for no other buffer.
C14_RgbDeliveredOncePerBuffer ==
    /\ \A r \in Requests : Handled(r) =>
          \A s \in streamBuffers_ :
             IF config_[s].type = "RGB"
             THEN /\ Cardinality(FramesFor(r, s)) = 1
                  /\ \A i \in FramesFor(r, s) :
                        /\ frames[i].type = "RGB"
                        /\ frames[i].timestamp = reqMeta[r].timestamp
                        /\ frames[i].size = config_[s].width * config_[s].height * 3
             ELSE FramesFor(r, s) = {}
    /\ rgbDelivered = Len(frames)

\* a completion of a request with two RGB buffers has been handled: two
\* frames of 1280 * 720 * 3 bytes
C14_Witness ==
    \E r \in Requests :
        /\ reqState[r] = "queued"
        /\ reqMeta[r].sequence > 0
        /\ Cardinality({s \in streamBuffers_ : config_[s].type = "RGB"}) = 2
        /\ \E i \in 1..Len(frames) : frames[i].request = r /\ frames[i].size = 2764800

\* the encode calls made for buffer s in the current completion of r
EncodeCallsFor(r, s) ==
    {i \in 1..Len(encodeCalls) : /\ encodeCalls[i].request = r
                                 /\ encodeCalls[i].stream = s
                                 /\ encodeCalls[i].sequence = reqMeta[r].sequence}

\* C15: when the handler is through with the buffers, encode() has been
\* called exactly once for every JPEG buffer of the request, with
\* width * height * 3 / 2 bytes of that buffer's stream and the request's
\* timestamp and sequence; it has been called for no other buffer.
C15_JpegEncodedOncePerBuffer ==
    \A r \in Requests : Handled(r) =>
        \A s \in streamBuffers_ :
           IF config_[s].type = "JPEG"
           THEN /\ Cardinality(EncodeCallsFor(r, s)) = 1
                /\ \A i \in EncodeCallsFor(r, s) :
                      /\ encodeCalls[i].timestamp = reqMeta[r].timestamp
                      /\ encodeCalls[i].size
                           = CDiv(config_[s].width * config_[s].height * 3, 2)
           ELSE EncodeCallsFor(r, s) = {}

\* the same, for the count, the timestamp and the sequence alone
C15_OneCallPerJpegBuffer ==
    \A r \in Requests : Handled(r) =>
        \A s \in streamBuffers_ :
           IF config_[s].type = "JPEG"
           THEN /\ Cardinality(EncodeCallsFor(r, s)) = 1
                /\ \A i \in EncodeCallsFor(r, s) :
                      encodeCalls[i].timestamp = reqMeta[r].timestamp
           ELSE EncodeCallsFor(r, s) = {}

\* ------------------------------------------------------------------ lifecycle properties
\* the step is a call of stop()
StopStep == stopCalls' = stopCalls + 1

\* C18: stop() called when running_ is false (never initialized, initialize or
\* start failed, already stopped or stopping) changes nothing; called when
\* running_ is true it leaves running_ false.
C18_StopIdempotent ==
    [][StopStep =>
          IF camState = "running"
          THEN camState' # "running"
          ELSE /\ UNCHANGED encVars
               /\ UNCHANGED <<camState, initialControls_, pendingControls_, jpegQuality_,
                              cm_pendingControls_, cm_currentControls_, reqControls,
                              reqState, deviceQueue, encoderStarted, connected,
                              errorCalls, crashed>>
               /\ UNCHANGED <<allocated, streamBuffers_, mappedBuffers_, requests_,
                              frames, encodeCalls>>]_vars

\* stop() has been called a second time after a stop() that ran to its end
C18_Witness ==
    /\ stopCalls = 2
    /\ camState = "stopped"
    /\ lastOp = "stop"

\* C19: after a failed start() the error callback has run once and nothing
\* is left half-started: no encoder worker, no subscription, no buffers, no
\* mapped regions, no requests.
C19_FailedStartLeavesNothing ==
    camState = "failed" =>
        /\ errorCalls = 1
        /\ ~encoderStarted
        /\ ~connected
        /\ allocated = {}
        /\ mappedBuffers_ = {}
        /\ requests_ = <<>>

\* what does hold after a failed start(): one error callback, running_ false
C19_ErrorReportedOnce ==
    camState = "failed" => errorCalls = 1

\* C20: after a failed allocateBuffers() and the next freeBuffers() nothing
\* stays allocated or mapped and the request list is empty.
C20_NoLeakAfterFreeBuffers ==
    camState = "destroyed" =>
        /\ allocated = {}
        /\ mappedBuffers_ = {}
        /\ streamBuffers_ = {}
        /\ requests_ = <<>>

\* ------------------------------------------------------------------ wake-ups on the shared condition variable
\* C29: no wake-up is lost: while the encoder is running every task in the
\* queue is eventually dequeued by the worker (the worker does not stay
\* blocked in cv_.wait while the queue is non-empty), unless stop() intervenes.
C29_EveryQueuedTaskDequeued ==
    \A t \in 1..MaxTasks :
        (running_ /\ t \in QueuedTasks) ~> (t \notin QueuedTasks \/ ~running_)

\* producer p is blocked in cv_.wait of encode(), or has tested the
\* predicate and is about to block
BlockedOrAboutTo(p) == pc[p] \in {"wait", "blocked"}

\* C30: a producer that is blocked in encode() on a full queue, or about to
\* block there, when stop() clears running_ eventually returns from encode().
C30_BlockedProducerReturnsAtStop ==
    \A p \in Producers :
        (BlockedOrAboutTo(p) /\ ~running_) ~> (pc[p] = "idle")

\* ------------------------------------------------------------------ controls at resubmission
\* the step in which the handler reuses request r and queues it again
ResubmitStep(r) == reqState[r] = "processed" /\ reqState'[r] = "queued"

\* C28: the control values the completion handler wrote onto its request are
\* still in the request's control list when the handler queues the request
\* again.
C28_WritesSurviveReuse ==
    [][\A r \in Requests : ResubmitStep(r) =>
          \A id \in DOMAIN handlerWrites :
             /\ id \in DOMAIN reqControls'[r]
             /\ reqControls'[r][id] = handlerWrites[id]]_vars

\* C26: an encode call made after setControls stored a jpeg-quality value q
\* (and before a later setControls) carries quality q, also when the handler
\* that makes the call has not applied the pending control set.
C26_EncodeUsesLastSetQuality ==
    [][Has(lastSetQuality) =>
          \A i \in (Len(encodeCalls) + 1)..Len(encodeCalls') :
             encodeCalls'[i].quality = Val(lastSetQuality)]_vars

\* ------------------------------------------------------------------ start
\* start() has returned true and no completion has been handled yet
JustStarted ==
    /\ camState = "running"
    /\ completions = 0
    /\ \A r \in Requests : reqState[r] = "queued"

\* the device control ids an initial control set with defaults puts on a request
StartIds ==
    {"FrameDurationLimits"}
    \cup (IF Has(initialControls_.exposureTime) THEN {"ExposureTime"} ELSE {})
    \cup (IF Has(initialControls_.afTrigger) THEN {"AfTrigger"} ELSE {})

\* C25: after a successful start() whose initial controls leave target-fps
\* and jpeg-quality unset, getControls() reports target-fps 30 and
\* jpeg-quality 85, the cached encoder quality is 85, every request carries
\* the whole initial control set (the frame-duration pair of 30 fps, 33333 us,
\* included), every request is in the device queue exactly once, and running_
\* is true.
C25_StartAppliesDefaults ==
    JustStarted =>
        /\ GetControls.targetFps = {30}
        /\ GetControls.jpegQuality = {85}
        /\ jpegQuality_ = 85
        /\ Len(deviceQueue) = NumRequests
        /\ \A r \in Requests :
              /\ QueuedTimes(r) = 1
              /\ DOMAIN reqControls[r] = StartIds
              /\ reqControls[r]["FrameDurationLimits"] = <<33333, 33333>>
              /\ \A id \in StartIds \ {"FrameDurationLimits"} : reqControls[r][id] = 1

\* start() has succeeded with initial controls that set other fields
C25_Witness ==
    /\ JustStarted
    /\ lastOp = "start"
    /\ Has(initialControls_.exposureTime)
    /\ \A r \in Requests : "AfTrigger" \in DOMAIN reqControls[r]

\* ------------------------------------------------------------------ StreamManager properties
\* C21: allocateBuffers() on a StreamManager that holds no device configuration
\* returns false, does not crash, and allocates, maps and creates nothing.
C21_AllocateUnconfiguredFailsCleanly ==
    (lastOp = "allocateBuffers" /\ config_ = <<>>) =>
        /\ ~crashed
        /\ lastReturn = "false"
        /\ allocated = {}
        /\ streamBuffers_ = {}
        /\ mappedBuffers_ = {}
        /\ requests_ = <<>>

\* a step that is one call of freeBuffers()
FreeBuffersStep == smCalls' = smCalls + 1 /\ lastOp' = "freeBuffers"

\* nothing is mapped, no stream has a buffer list, and there is no request
NothingHeld == mappedBuffers_ = {} /\ streamBuffers_ = {} /\ requests_ = <<>>

\* C22: after freeBuffers() the mapped-buffer table, the per-stream buffer
\* lists and the request list are empty; a call with nothing held unmaps and
\* frees nothing and leaves the state as it was.
C22_FreeBuffersIdempotent ==
    [][FreeBuffersStep =>
          /\ mappedBuffers_' = {}
          /\ streamBuffers_' = {}
          /\ requests_' = <<>>
          /\ NothingHeld =>
                /\ lastReturn' = "nothing"
                /\ UNCHANGED <<allocated, mappedBuffers_, streamBuffers_, requests_,
                               config_, streamTypes_, jpegWidth_, jpegHeight_,
                               crashed>>]_vars

\* freeBuffers() called a second time after it released an allocation
C22_Witness ==
    /\ lastOp = "freeBuffers"
    /\ lastReturn = "nothing"
    /\ smCalls = 4
    /\ config_ # <<>>
    /\ NothingHeld

\* the positions of streams[] that are not RAW
NonRawPositions(streams) == {j \in 1..Len(streams) : streams[j].type # "RAW"}

\* the position in streams[] of its k-th entry that is not RAW
NthNonRaw(streams, k) ==
    CHOOSE j \in NonRawPositions(streams) :
        Cardinality({m \in NonRawPositions(streams) : m <= j}) = k

\* C23: the stream list configure() builds has one RAW entry, at position 0
\* (the explicit rawStream, or the default 2304x1296), followed by the entries
\* of streams[] that are not RAW, in their order; RAW entries of streams[]
\* are dropped.
C23_ConfigureStreamList ==
    (lastOp = "configure" /\ lastReturn = "true") =>
        /\ Len(config_) = 1 + Cardinality(NonRawPositions(cfgInput.streams))
        /\ config_[1] = (IF Has(cfgInput.rawStream) THEN Val(cfgInput.rawStream)
                         ELSE [type |-> "RAW", width |-> 2304, height |-> 1296])
        /\ {i \in 1..Len(config_) : config_[i].type = "RAW"} = {1}
        /\ \A i \in 2..Len(config_) :
              config_[i] = cfgInput.streams[NthNonRaw(cfgInput.streams, i - 1)]
        /\ streamTypes_ = [s \in 1..Len(config_) |-> config_[s].type]

\* configure() succeeded on a streams[] with a RAW entry between others
C23_Witness ==
    /\ lastOp = "configure"
    /\ lastReturn = "true"
    /\ \E j \in 2..(Len(cfgInput.streams) - 1) : cfgInput.streams[j].type = "RAW"
    /\ Len(config_) = Len(cfgInput.streams)

\* allocateBuffers() returned true on a configured StreamManager
BuffersAllocated ==
    lastOp = "allocateBuffers" /\ lastReturn = "true" /\ config_ # <<>>

\* C24: when buffers are allocated there are 6 requests, as many as buffers of
\* each stream; request i carries one buffer of every configured stream, the
\* one at index i, and no buffer is attached to two requests.
C24_RequestsMatchBuffers ==
    BuffersAllocated =>
        /\ Len(requests_) = 6
        /\ numRequests = bufferCount
        /\ \A s \in Streams : GetStreamType(s) # "RAW" =>
              Cardinality({m \in mappedBuffers_ : m.stream = s}) = Len(requests_)
        /\ \A i \in 1..Len(requests_) :
              /\ {b.stream : b \in requests_[i]} = Streams
              /\ \A b \in requests_[i] : b.index = i
              /\ Cardinality(requests_[i]) = Cardinality(Streams)
        /\ \A i, j \in 1..Len(requests_) :
              i # j => requests_[i] \cap requests_[j] = {}

\* buffers allocated for a RAW, a JPEG and an RGB stream
C24_Witness ==
    /\ BuffersAllocated
    /\ Cardinality(Streams) >= 3
    /\ Len(requests_) = 6

\* ------------------------------------------------------------------ stop() properties
\* the completion handler is running, inside encode() or outside
HandlerActive == Handling # {} \/ pc[CameraThread] # "idle"

\* a frame callback is invoked: RGB by the handler, JPEG by the worker
CallbackStep == frames' # frames \/ delivered' # delivered

\* the handler or encode() reads the mapped bytes of a buffer
ReadsMappedStep ==
    \/ frames' # frames
    \/ encodeCalls' # encodeCalls
    \/ pc[CameraThread] = "idle" /\ pc'[CameraThread] = "pred"

\* C27: stop() on a running orchestrator unsubscribes, stops the device, stops
\* and joins the encoder worker, unmaps and frees the buffers and releases
\* the device, in this order; no frame callback is invoked after stop() has
\* returned, and neither the handler nor an encode task reads a mapped
\* buffer after it was unmapped.
C27_StopOrder ==
    /\ [](camState = "deviceStopped" => ~connected /\ ~HandlerActive)
    /\ [](camState = "stopped" =>
             /\ ~connected
             /\ ~HandlerActive
             /\ pc[Worker] = "done"
             /\ pc[Controller] = "stopped"
             /\ mappedBuffers_ = {})
    /\ [](HandlerActive => camState \in {"running", "stopping"} /\ mappedBuffers_ # {})
    /\ [][/\ (running_ /\ ~running_') => camState = "deviceStopped"
          /\ (mappedBuffers_ # {} /\ mappedBuffers_' = {}) =>
                /\ pc[Worker] = "done"
                /\ pc[Controller] = "stopped"
                /\ camState = "deviceStopped"
                /\ camState' = "stopped"
          /\ CallbackStep => camState # "stopped"
          /\ ReadsMappedStep => mappedBuffers_ # {} /\ mappedBuffers_' = mappedBuffers_
         ]_vars

\* stop() has returned after RGB and JPEG frames were delivered, with a task
\* still queued when the encoder was stopped
C27_Witness ==
    /\ camState = "stopped"
    /\ Len(frames) >= 1
    /\ Len(delivered) >= 1
    /\ queuedAtStop # {}

\* ------------------------------------------------------------------ setControls properties
\* running, with the last stashed control set taken by a handled completion
StashTaken == camState = "running" /\ ~crashed /\ ~Has(pendingControls_)

\* C31: no control value passed to setControls is lost: once a completion has
\* taken the pending set, every field that any setControls call supplied is
\* in getControls() with the value of the last call that supplied it. The
\* one-shot af-trigger, which is never reported, is left aside.
C31_NoControlValueLost ==
    (StashTaken /\ completedSinceSet) =>
        \A f \in Fields \ {"afTrigger"} :
            Has(setMerged[f]) => GetControls[f] = setMerged[f]

\* C32: while the orchestrator is running and holds no pending control set,
\* the cached jpeg quality handed to the encoder is getControls().jpegQuality.
C32_CachedQualityIsCurrent ==
    StashTaken =>
        /\ Has(GetControls.jpegQuality)
        /\ Val(GetControls.jpegQuality) = jpegQuality_

\* the request control of every field that is written to the device
ControlId(f) ==
    CASE f = "exposureMode" -> "AeExposureMode"
      [] f = "exposureTime" -> "ExposureTime"
      [] f = "analogueGain" -> "AnalogueGain"
      [] f = "afMode" -> "AfMode"
      [] f = "afTrigger" -> "AfTrigger"
      [] f = "lensPosition" -> "LensPosition"
      [] f = "awbMode" -> "AwbMode"
      [] f = "colourGains" -> "ColourGains"
      [] f = "brightness" -> "Brightness"
      [] f = "contrast" -> "Contrast"
      [] f = "saturation" -> "Saturation"
      [] f = "sharpness" -> "Sharpness"
      [] f = "targetFps" -> "FrameDurationLimits"
      [] OTHER -> "none"

\* current and pending of the ControlPipeline agree on every field but af-trigger
CurrentIsPending ==
    \A f \in Fields \ {"afTrigger"} : cm_currentControls_[f] = cm_pendingControls_[f]

\* the last applyControls call wrote every field of fs that pending holds
LastApplyRewrote(fs) ==
    \A f \in fs : Has(cm_pendingControls_[f]) => ControlId(f) \in DOMAIN lastApply.writes

\* C33 as stated: current and pending agree on every field but af-trigger,
\* and each applyControls call rewrites every field ever set onto its request.
C33_PendingNeverCleared ==
    ~crashed =>
        /\ CurrentIsPending
        /\ Applied => LastApplyRewrote(Fields \ {"afTrigger"})

\* C33, amended: ... each applyControls call rewrites every field ever set
\* except jpeg-quality, which is promoted but never written to a request.
C33_PendingNeverClearedDeviceFields ==
    ~crashed =>
        /\ CurrentIsPending
        /\ Applied => LastApplyRewrote(Fields \ {"afTrigger", "jpegQuality"})

\* a call whose argument has one field rewrote a field of an earlier call
C33_Witness ==
    /\ ~crashed
    /\ Applied
    /\ lastApply.arg = [NoControls EXCEPT !.jpegQuality = {90}]
    /\ "ExposureTime" \in DOMAIN lastApply.writes
    /\ Has(cm_currentControls_.sharpness)

\* ------------------------------------------------------------------ control lock properties
\* the handler is blocked in encode() on a full encoder queue
HandlerBlockedInEncode ==
    /\ Handling # {}
    /\ pc[CameraThread] = "blocked"
    /\ Len(queue_) >= maxQueueSize_

\* C34: the completion handler does not hold controlMutex_ while it delivers
\* RGB frames or is inside encode(): a setControls() call made while the
\* handler is blocked on the full encoder queue gets the lock and returns.
C34_HandlerReleasesControlLock ==
    /\ Handling # {} => controlMutex_ = NoThread
    /\ (HandlerBlockedInEncode /\ setCalls < MaxSetControls /\ ~crashed) =>
          \A controls \in PipeControlInputs : ENABLED SetControls(controls)

\* the handler is blocked on the full queue and holds a control set that
\* setControls stashed after the handler's control block
C34_Witness ==
    /\ HandlerBlockedInEncode
    /\ running_
    /\ ~completedSinceSet
    /\ Has(pendingControls_)

\* ------------------------------------------------------------------ encode dimensions
\* C35: every encode task is submitted with the width and height of the
\* stream its buffer belongs to, so that the length encode() copies,
\* width * height * 3 / 2, is that buffer's mapped size; also with two JPEG
\* streams of different resolutions.
C35_EncodeDimsOfOwnStream ==
    \A i \in 1..Len(encodeCalls) :
        LET cfg == config_[encodeCalls[i].stream]
        IN  /\ encodeCalls[i].width = cfg.width
            /\ encodeCalls[i].height = cfg.height
            /\ encodeCalls[i].size = MappedSize("JPEG", cfg.width, cfg.height)

====
